---- MODULE Spec2Model ----
(***************************************************************************)
(* A model of the Leo static checker's symbol table                        *)
(* (static-check/src/symbol_table.rs), of the constraint generator's       *)
(* entry point (compiler/src/constraints/mod.rs) and of the field error    *)
(* taxonomy (compiler/src/errors/constraints/field.rs).                    *)
(*                                                                         *)
(* Encodings.  Option<T> is a sequence of length at most one: None is <<>> *)
(* and Some(x) is <<x>>.  A HashMap<String, T> is a function whose domain  *)
(* is the set of its keys.  A HashMap<Identifier, Def> of a program is the *)
(* sequence of its values in the iteration order of that map instance: the *)
(* order is arbitrary but fixed for one instance, so it is part of the     *)
(* input.  Result<(), E> is a record with an ok flag.                      *)
(***************************************************************************)
EXTENDS Integers, Sequences, FiniteSets, TLC

VARIABLES
    tables,     \* scope slot -> Option<SymbolTable>: the live symbol tables
    parentOf,   \* history: the slot whose table was boxed as a slot's parent (0: none)
    ownIns,     \* history: <<kind, name>> inserted with insert_circuit/insert_function per slot
    ancIns,     \* history: <<kind, name>> inserted in the boxed ancestors of a slot
    ops,        \* number of operations performed so far
    last,       \* the operation that has just returned: its inputs, pre-state and result
    gen         \* the runs of generate_constraints on one program and parameter list

vars == <<tables, parentOf, ownIns, ancIns, ops, last, gen>>

---------------------------------------------------------------------------
(* Option and HashMap *)

None == <<>>

Some(x) == <<x>>

EmptyMap == <<>>

\* HashMap::get
MapGet(m, k) == IF k \in DOMAIN m THEN Some(m[k]) ELSE None

\* HashMap::insert, the map after the upsert (the prior value is MapGet before it)
MapInsert(m, k, v) == [x \in (DOMAIN m) \cup {k} |-> IF x = k THEN v ELSE m[x]]

---------------------------------------------------------------------------
(* Bounds and input universes *)

MaxScopeOps == 5

MaxDefs == 2

Slots == {1, 2, 3}

Spans == {1, 2}

ScopeNames == {"a", "b"}

\* leo_typed::Identifier: a name and the span of its occurrence
Identifier(n, s) == [name |-> n, span |-> s]

ScopeIdentifiers == {Identifier(n, s) : n \in ScopeNames, s \in Spans}

\* A CircuitType: identifier, member variables in order, member functions
CircuitType(identifier, variables, functions) ==
    [identifier |-> identifier, variables |-> variables, functions |-> functions]

\* A FunctionType: identifier, parameter types, return type
FunctionType(identifier, inputs, output) ==
    [identifier |-> identifier, inputs |-> inputs, output |-> output]

---------------------------------------------------------------------------
(* SymbolTable *)

\* SymbolTable::new
new(parent) ==
    [names |-> EmptyMap, circuits |-> EmptyMap, functions |-> EmptyMap, parent |-> parent]

\* SymbolTable::insert_name: the table after the upsert and the prior value
insert_name(self, name, variable_type) ==
    [t |-> [self EXCEPT !.names = MapInsert(self.names, name, variable_type)],
     r |-> MapGet(self.names, name)]

\* SymbolTable::insert_circuit
insert_circuit(self, identifier, circuit_type) ==
    [t |-> [self EXCEPT !.circuits = MapInsert(self.circuits, identifier.name, circuit_type)],
     r |-> MapGet(self.circuits, identifier.name)]

\* SymbolTable::insert_function
insert_function(self, identifier, function_type) ==
    [t |-> [self EXCEPT !.functions = MapInsert(self.functions, identifier.name, function_type)],
     r |-> MapGet(self.functions, identifier.name)]

RECURSIVE get_variable_with_parent(_, _)
\* get_variable that falls back to the parent table
get_variable_with_parent(self, name) ==
    IF name \in DOMAIN self.names
    THEN Some(self.names[name])
    ELSE IF self.parent # None THEN get_variable_with_parent(self.parent[1], name) ELSE None

\* SymbolTable::get_variable
get_variable(self, name) == MapGet(self.names, name)

\* get_circuit without the fall back to the parent table
get_circuit_no_parent(self, name) == MapGet(self.circuits, name)

RECURSIVE get_circuit_parent_first(_, _)
\* get_circuit that looks in the parent table before the current level
get_circuit_parent_first(self, name) ==
    LET above == IF self.parent # None
                 THEN get_circuit_parent_first(self.parent[1], name) ELSE None
    IN  IF above # None THEN above ELSE MapGet(self.circuits, name)

RECURSIVE get_circuit(_, _)
\* SymbolTable::get_circuit
get_circuit(self, name) ==
    IF name \in DOMAIN self.circuits
    THEN Some(self.circuits[name])
    ELSE IF self.parent # None THEN get_circuit(self.parent[1], name) ELSE None

RECURSIVE get_function(_, _)
\* SymbolTable::get_function
get_function(self, key) ==
    IF key \in DOMAIN self.functions
    THEN Some(self.functions[key])
    ELSE IF self.parent # None THEN get_function(self.parent[1], key) ELSE None

---------------------------------------------------------------------------
(* Definitions, types and errors *)

\* leo_typed::Circuit: its name and the type names its members refer to, in member order
Circuit(identifier, refs) == [circuit_name |-> identifier, refs |-> refs]

\* leo_typed::Function: its identifier and the type names its signature refers to
Function(identifier, refs) == [identifier |-> identifier, refs |-> refs]

\* ParameterType::from(Circuit): the circuit type named by the definition's identifier
ParameterTypeFromCircuit(circuit) ==
    [kind |-> "circuit", name |-> circuit.circuit_name.name, span |-> circuit.circuit_name.span]

\* ParameterType::from(Function)
ParameterTypeFromFunction(function) ==
    [kind |-> "function", name |-> function.identifier.name, span |-> function.identifier.span]

Ok == [ok |-> TRUE, err |-> "none", arg |-> None]

Err(kind, arg) == [ok |-> FALSE, err |-> kind, arg |-> Some(arg)]

\* What a handler leaves: the table, its result, and the calls it made in order, ended
\* by the error it raised if it raised one
Out(t, r, log) ==
    [t |-> t, r |-> r,
     log |-> IF r.ok THEN log ELSE Append(log, [ev |-> "error", err |-> r.err])]

\* What is left when the calls of log were made before those of out
Prepend(log, out) == [t |-> out.t, r |-> out.r, log |-> log \o out.log]

\* first?; rest, where the error of first is dropped and rest runs all the same
Then_recover(first, rest) == Prepend(first.log, rest)

\* first?; rest: the error of first, or else what rest leaves after first
Then(first, rest) == IF ~first.r.ok THEN first ELSE Prepend(first.log, rest)

\* The log of a handler between the events of its call and of its return
Bracket(handler, out) ==
    [t |-> out.t, r |-> out.r,
     log |-> << [ev |-> "call", name |-> handler] >> \o out.log
                \o << [ev |-> "return", name |-> handler] >>]

\* The declared-name test of type resolution: a named type is known when its name is
\* registered in the name map of the table
TypeDeclared(table, name) == get_variable(table, name) # None

\* The first type name of refs that is not declared, if any
UndeclaredRefs(table, refs) == SelectSeq(refs, LAMBDA x : ~TypeDeclared(table, x))

\* CircuitType::new: resolves every member type, failing with an unknown-type error at
\* the first member whose type is not declared
CircuitType_new(table, circuit) ==
    LET bad == UndeclaredRefs(table, circuit.refs) IN
    IF bad # <<>>
    THEN [r |-> Err("unknown_type", [name |-> bad[1]]), ty |-> None]
    ELSE [r |-> Ok, ty |-> Some(CircuitType(circuit.circuit_name, circuit.refs, <<>>))]

\* FunctionType::new: resolves the parameter and return types of the signature
FunctionType_new(table, function) ==
    LET bad == UndeclaredRefs(table, function.refs) IN
    IF bad # <<>>
    THEN [r |-> Err("unknown_type", [name |-> bad[1]]), ty |-> None]
    ELSE [r |-> Ok, ty |-> Some(FunctionType(function.identifier, function.refs, <<>>))]

---------------------------------------------------------------------------
(* Name registration and duplicate checks *)

\* insert_circuit_name whose error carries the new type instead of the prior one
insert_circuit_name_new_type(self, name, variable_type) ==
    LET i == insert_name(self, name, variable_type) IN
    Out(i.t,
        IF i.r # None THEN Err("duplicate_circuit", variable_type) ELSE Ok,
        << [ev |-> "insert_circuit_name", name |-> name, ty |-> variable_type] >>)

\* insert_circuit_name that leaves the name map as it was when the name is taken
insert_circuit_name_keep_prior(self, name, variable_type) ==
    LET i == insert_name(self, name, variable_type) IN
    Out(IF i.r # None THEN self ELSE i.t,
        IF i.r # None THEN Err("duplicate_circuit", i.r[1]) ELSE Ok,
        << [ev |-> "insert_circuit_name", name |-> name, ty |-> variable_type] >>)

\* SymbolTable::insert_circuit_name
insert_circuit_name(self, name, variable_type) ==
    LET i == insert_name(self, name, variable_type) IN
    Out(i.t,
        IF i.r # None THEN Err("duplicate_circuit", i.r[1]) ELSE Ok,
        << [ev |-> "insert_circuit_name", name |-> name, ty |-> variable_type] >>)

\* insert_function_name that takes only a function for a duplicate
insert_function_name_own_kind(self, name, variable_type) ==
    LET i == insert_name(self, name, variable_type) IN
    Out(i.t,
        IF i.r # None /\ i.r[1].kind = "function"
        THEN Err("duplicate_function", i.r[1]) ELSE Ok,
        << [ev |-> "insert_function_name", name |-> name, ty |-> variable_type] >>)

\* SymbolTable::insert_function_name
insert_function_name(self, name, variable_type) ==
    LET i == insert_name(self, name, variable_type) IN
    Out(i.t,
        IF i.r # None THEN Err("duplicate_function", i.r[1]) ELSE Ok,
        << [ev |-> "insert_function_name", name |-> name, ty |-> variable_type] >>)

RECURSIVE check_duplicate_circuits(_, _)
\* SymbolTable::check_duplicate_circuits: circuits is the map in iteration order
check_duplicate_circuits(self, circuits) ==
    IF circuits = <<>> THEN Out(self, Ok, <<>>)
    ELSE LET circuit == Head(circuits)
             o == insert_circuit_name(self, circuit.circuit_name.name,
                                      ParameterTypeFromCircuit(circuit))
         IN  Then(o, check_duplicate_circuits(o.t, Tail(circuits)))

RECURSIVE check_duplicate_functions(_, _)
\* SymbolTable::check_duplicate_functions
check_duplicate_functions(self, functions) ==
    IF functions = <<>> THEN Out(self, Ok, <<>>)
    ELSE LET function == Head(functions)
             o == insert_function_name(self, function.identifier.name,
                                       ParameterTypeFromFunction(function))
         IN  Then(o, check_duplicate_functions(o.t, Tail(functions)))

---------------------------------------------------------------------------
(* Input *)

INPUT_VARIABLE_NAME == "input"

RECORD_VARIABLE_NAME == "record"

REGISTERS_VARIABLE_NAME == "registers"

STATE_VARIABLE_NAME == "state"

STATE_LEAF_VARIABLE_NAME == "state_leaf"

\* Identifier::new: an identifier that occurs nowhere in the source
Identifier_new(name) == Identifier(name, 0)

\* The primitive types, which need no declaration
Primitives == {"u8", "field"}

\* leo_typed::Input: the values of its four sections, each a parameter name and its type
Input(registers, record, state, state_leaf) ==
    [registers |-> registers, record |-> record, state |-> state, state_leaf |-> state_leaf]

\* The types of values that are neither primitive nor declared
UnknownInputTypes(table, values) ==
    SelectSeq([i \in DOMAIN values |-> values[i].type],
              LAMBDA ty : ty \notin Primitives /\ ~TypeDeclared(table, ty))

\* CircuitType::from_input_section: a circuit type named after the section, with one
\* member variable per value of the section and no member function
from_input_section(table, name, values) ==
    LET bad == UnknownInputTypes(table, values) IN
    IF bad # <<>>
    THEN [r |-> Err("unknown_type", [name |-> bad[1]]), ty |-> None]
    ELSE [r |-> Ok, ty |-> Some(CircuitType(Identifier_new(name), values, <<>>))]

\* CircuitVariableType::from(&CircuitType): a member variable named after the circuit,
\* of that circuit's type
CircuitVariableTypeFrom(circuit_type) ==
    [identifier |-> circuit_type.identifier,
     type |-> [kind |-> "circuit", name |-> circuit_type.identifier.name]]

\* The insertion of a circuit type under its own identifier, as a handler step
InsertCircuitType(self, circuit_type) ==
    Out(insert_circuit(self, circuit_type.identifier, circuit_type).t, Ok,
        << [ev |-> "insert_circuit", name |-> circuit_type.identifier.name] >>)

\* The input circuit type of insert_input, whose last member is misnamed
InputCircuitType_short(registers_type, record_type, state_type, state_leaf_type) ==
    CircuitType(Identifier_new(INPUT_VARIABLE_NAME),
                << CircuitVariableTypeFrom(registers_type),
                   CircuitVariableTypeFrom(record_type),
                   CircuitVariableTypeFrom(state_type),
                   CircuitVariableTypeFrom(state_type) >>,
                <<>>)

\* The circuit type insert_input creates for the input keyword
InputCircuitType(registers_type, record_type, state_type, state_leaf_type) ==
    CircuitType(Identifier_new(INPUT_VARIABLE_NAME),
                << CircuitVariableTypeFrom(registers_type),
                   CircuitVariableTypeFrom(record_type),
                   CircuitVariableTypeFrom(state_type),
                   CircuitVariableTypeFrom(state_leaf_type) >>,
                <<>>)

\* The insertions of insert_input, once the four section types are built
InsertInputTypes(self, registers_type, record_type, state_type, state_leaf_type) ==
    LET a == InsertCircuitType(self, registers_type)
        b == Prepend(a.log, InsertCircuitType(a.t, record_type))
        c == Prepend(b.log, InsertCircuitType(b.t, state_type))
        d == Prepend(c.log, InsertCircuitType(c.t, state_leaf_type))
    IN  Prepend(d.log, InsertCircuitType(d.t,
            InputCircuitType(registers_type, record_type, state_type, state_leaf_type)))

\* insert_input that inserts the registers circuit as soon as its type is built, before
\* the other section types are
insert_input_eager(self, input) ==
    LET registers_type == from_input_section(self, REGISTERS_VARIABLE_NAME, input.registers)
        record_type == from_input_section(self, RECORD_VARIABLE_NAME, input.record)
        state_type == from_input_section(self, STATE_VARIABLE_NAME, input.state)
        state_leaf_type ==
            from_input_section(self, STATE_LEAF_VARIABLE_NAME, input.state_leaf)
    IN  IF ~registers_type.r.ok THEN Out(self, registers_type.r, <<>>)
        ELSE LET a == InsertCircuitType(self, registers_type.ty[1]) IN
             IF ~record_type.r.ok THEN Out(a.t, record_type.r, a.log)
             ELSE IF ~state_type.r.ok THEN Out(a.t, state_type.r, a.log)
             ELSE IF ~state_leaf_type.r.ok THEN Out(a.t, state_leaf_type.r, a.log)
             ELSE InsertInputTypes(self, registers_type.ty[1], record_type.ty[1],
                                   state_type.ty[1], state_leaf_type.ty[1])

\* SymbolTable::insert_input
insert_input(self, input) ==
    LET registers_type == from_input_section(self, REGISTERS_VARIABLE_NAME, input.registers)
        record_type == from_input_section(self, RECORD_VARIABLE_NAME, input.record)
        state_type == from_input_section(self, STATE_VARIABLE_NAME, input.state)
        state_leaf_type ==
            from_input_section(self, STATE_LEAF_VARIABLE_NAME, input.state_leaf)
    IN  IF ~registers_type.r.ok THEN Out(self, registers_type.r, <<>>)
        ELSE IF ~record_type.r.ok THEN Out(self, record_type.r, <<>>)
        ELSE IF ~state_type.r.ok THEN Out(self, state_type.r, <<>>)
        ELSE IF ~state_leaf_type.r.ok THEN Out(self, state_leaf_type.r, <<>>)
        ELSE InsertInputTypes(self, registers_type.ty[1], record_type.ty[1],
                              state_type.ty[1], state_leaf_type.ty[1])

---------------------------------------------------------------------------
(* Imported symbols *)

\* leo_typed::ImportSymbol: the imported name and its optional alias
ImportSymbol(symbol, alias) == [symbol |-> symbol, alias |-> alias]

\* ImportSymbol::is_star
is_star(symbol) == symbol.symbol = "*"

\* Iterator::find over a map in iteration order: the first of the matching entries
Find(hits) == IF hits = <<>> THEN None ELSE Some(hits[1])

\* insert_import_symbol that searches the program by the alias instead of the
\* symbol's original name
insert_import_symbol_by_alias(self, symbol, program) ==
    IF is_star(symbol)
    THEN LET c == check_duplicate_circuits(self, program.circuits)
         IN  Then(c, check_duplicate_functions(c.t, program.functions))
    ELSE LET identifier == IF symbol.alias # None THEN symbol.alias[1] ELSE symbol.symbol
             matched_circuit ==
                 Find(SelectSeq(program.circuits, LAMBDA c : identifier = c.circuit_name.name))
         IN  IF matched_circuit # None
             THEN insert_circuit_name(self, identifier,
                                      ParameterTypeFromCircuit(matched_circuit[1]))
             ELSE LET matched_function ==
                          Find(SelectSeq(program.functions, LAMBDA f : identifier = f.identifier.name))
                  IN  IF matched_function # None
                      THEN insert_function_name(self, identifier,
                                                ParameterTypeFromFunction(matched_function[1]))
                      ELSE Out(self, Err("unknown_symbol", [name |-> symbol.symbol]), <<>>)

\* insert_import_symbol whose star branch drops the result of the circuit check
insert_import_symbol_star_unchecked(self, symbol, program) ==
    IF is_star(symbol)
    THEN LET c == check_duplicate_circuits(self, program.circuits)
         IN  Prepend(c.log, check_duplicate_functions(c.t, program.functions))
    ELSE LET identifier == IF symbol.alias # None THEN symbol.alias[1] ELSE symbol.symbol
             matched_circuit ==
                 Find(SelectSeq(program.circuits, LAMBDA c : symbol.symbol = c.circuit_name.name))
         IN  IF matched_circuit # None
             THEN insert_circuit_name(self, identifier,
                                      ParameterTypeFromCircuit(matched_circuit[1]))
             ELSE LET matched_function ==
                          Find(SelectSeq(program.functions, LAMBDA f : symbol.symbol = f.identifier.name))
                  IN  IF matched_function # None
                      THEN insert_function_name(self, identifier,
                                                ParameterTypeFromFunction(matched_function[1]))
                      ELSE Out(self, Err("unknown_symbol", [name |-> symbol.symbol]), <<>>)

\* SymbolTable::insert_import_symbol
insert_import_symbol(self, symbol, program) ==
    IF is_star(symbol)
    THEN LET c == check_duplicate_circuits(self, program.circuits)
         IN  Then(c, check_duplicate_functions(c.t, program.functions))
    ELSE LET identifier == IF symbol.alias # None THEN symbol.alias[1] ELSE symbol.symbol
             matched_circuit ==
                 Find(SelectSeq(program.circuits, LAMBDA c : symbol.symbol = c.circuit_name.name))
         IN  IF matched_circuit # None
             THEN insert_circuit_name(self, identifier,
                                      ParameterTypeFromCircuit(matched_circuit[1]))
             ELSE LET matched_function ==
                          Find(SelectSeq(program.functions, LAMBDA f : symbol.symbol = f.identifier.name))
                  IN  IF matched_function # None
                      THEN insert_function_name(self, identifier,
                                                ParameterTypeFromFunction(matched_function[1]))
                      ELSE Out(self, Err("unknown_symbol", [name |-> symbol.symbol]), <<>>)

---------------------------------------------------------------------------
(* Unknown-type checks *)

\* One turn of the loop of check_unknown_types_circuits: resolve the types of the
\* circuit definition, then insert the circuit type under the circuit's name
check_unknown_types_circuit(self, circuit) ==
    LET circuit_type == CircuitType_new(self, circuit) IN
    IF ~circuit_type.r.ok THEN Out(self, circuit_type.r, <<>>)
    ELSE Out(insert_circuit(self, circuit.circuit_name, circuit_type.ty[1]).t, Ok,
             << [ev |-> "insert_circuit", name |-> circuit.circuit_name.name] >>)

\* check_unknown_types_circuits that ends after the first circuit
check_unknown_types_circuits_first_only(self, circuits) ==
    IF circuits = <<>> THEN Out(self, Ok, <<>>)
    ELSE check_unknown_types_circuit(self, Head(circuits))

RECURSIVE check_unknown_types_circuits(_, _)
\* SymbolTable::check_unknown_types_circuits
check_unknown_types_circuits(self, circuits) ==
    IF circuits = <<>> THEN Out(self, Ok, <<>>)
    ELSE LET o == check_unknown_types_circuit(self, Head(circuits))
         IN  Then(o, check_unknown_types_circuits(o.t, Tail(circuits)))

\* One turn of the loop of check_unknown_types_functions
check_unknown_types_function(self, function) ==
    LET function_type == FunctionType_new(self, function) IN
    IF ~function_type.r.ok THEN Out(self, function_type.r, <<>>)
    ELSE Out(insert_function(self, function.identifier, function_type.ty[1]).t, Ok,
             << [ev |-> "insert_function", name |-> function.identifier.name] >>)

RECURSIVE check_unknown_types_functions(_, _)
\* SymbolTable::check_unknown_types_functions
check_unknown_types_functions(self, functions) ==
    IF functions = <<>> THEN Out(self, Ok, <<>>)
    ELSE LET o == check_unknown_types_function(self, Head(functions))
         IN  Then(o, check_unknown_types_functions(o.t, Tail(functions)))

\* SymbolTable::check_unknown_types_program
check_unknown_types_program(self, program) ==
    LET c == check_unknown_types_circuits(self, program.circuits)
    IN  Then(c, check_unknown_types_functions(c.t, program.functions))

---------------------------------------------------------------------------
(* Programs and imports *)

\* leo_typed::Program: circuits and functions are its maps in iteration order, each
\* definition stored under its own identifier
Program(name, imports, circuits, functions) ==
    [name |-> name, imports |-> imports, circuits |-> circuits, functions |-> functions]

\* leo_typed::ImportStatement with the symbols ImportedSymbols::from lists for it:
\* pairs of a module name and the symbol imported from that module
ImportStatement(package, symbols) == [package |-> package, symbols |-> symbols]

\* A core package: whether its access path resolves to core symbols, and the circuits
\* CorePackageList::to_symbols gives for it
Package(name, resolves, symbols) == [name |-> name, resolves |-> resolves, symbols |-> symbols]

\* ImportParser::get_import
get_import(import_parser, name) == MapGet(import_parser.imports, name)

\* ImportParser::get_core_package
get_core_package(import_parser, package) == MapGet(import_parser.core_packages, package)

\* One turn of the loop of insert_core_package: store the name of the symbol, create
\* its circuit type and insert it
insert_core_symbol(self, circuit) ==
    LET o == insert_circuit_name(self, circuit.circuit_name.name,
                                 ParameterTypeFromCircuit(circuit))
    IN  Then(o, LET circuit_type == CircuitType_new(o.t, circuit) IN
                IF ~circuit_type.r.ok THEN Out(o.t, circuit_type.r, <<>>)
                ELSE Out(insert_circuit(o.t, circuit_type.ty[1].identifier,
                                        circuit_type.ty[1]).t, Ok,
                         << [ev |-> "insert_circuit", name |-> circuit.circuit_name.name] >>))

RECURSIVE core_package_symbols(_, _)
\* The loop of insert_core_package over the core symbols
core_package_symbols(self, symbols) ==
    IF symbols = <<>> THEN Out(self, Ok, <<>>)
    ELSE LET o == insert_core_symbol(self, Head(symbols))
         IN  Then(o, core_package_symbols(o.t, Tail(symbols)))

\* SymbolTable::insert_core_package
insert_core_package(self, package) ==
    Bracket("insert_core_package",
            IF ~package.resolves
            THEN Out(self, Err("core_package", [name |-> package.name]), <<>>)
            ELSE core_package_symbols(self, package.symbols))

RECURSIVE check_duplicate_program(_, _, _)
RECURSIVE insert_import_symbols(_, _, _, _)
RECURSIVE check_imports(_, _, _)

\* The turn of the loop of insert_import that passes over a module whose names the
\* table holds already, as if the checked list outlived the call
insert_import_module_known(self, name, import_parser) ==
    LET program == get_import(import_parser, name) IN
    Prepend(<< [ev |-> "get_import", name |-> name] >>,
            IF program = None
            THEN Out(self, Err("unknown_package", [name |-> name]), <<>>)
            ELSE IF /\ program[1].circuits \o program[1].functions # <<>>
                    /\ \A i \in DOMAIN program[1].circuits :
                          program[1].circuits[i].circuit_name.name \in DOMAIN self.names
                    /\ \A i \in DOMAIN program[1].functions :
                          program[1].functions[i].identifier.name \in DOMAIN self.names
                 THEN Out(self, Ok, <<>>)
                 ELSE LET d == check_duplicate_program(self, program[1], import_parser)
                      IN  Then(d, check_unknown_types_program(d.t, program[1])))

\* One turn of the loop of insert_import for a module not checked yet: find the
\* program, check it for duplicate types, then for undefined types
insert_import_module(self, name, import_parser) ==
    LET program == get_import(import_parser, name) IN
    Prepend(<< [ev |-> "get_import", name |-> name] >>,
            IF program = None
            THEN Out(self, Err("unknown_package", [name |-> name]), <<>>)
            ELSE LET d == check_duplicate_program(self, program[1], import_parser)
                 IN  Then(d, check_unknown_types_program(d.t, program[1])))

RECURSIVE insert_import_symbols_unchecked(_, _, _, _)
\* The loop of insert_import, which checks the module of every symbol again
insert_import_symbols_unchecked(self, symbols, checked, import_parser) ==
    IF symbols = <<>> THEN Out(self, Ok, <<>>)
    ELSE LET m == insert_import_module(self, Head(symbols).name, import_parser)
         IN  Then(m, insert_import_symbols_unchecked(m.t, Tail(symbols), checked,
                                                     import_parser))

\* The loop of insert_import over the imported symbols, with the checked list so far
insert_import_symbols(self, symbols, checked, import_parser) ==
    IF symbols = <<>> THEN Out(self, Ok, <<>>)
    ELSE IF Head(symbols).name \in checked
         THEN insert_import_symbols(self, Tail(symbols), checked, import_parser)
         ELSE LET m == insert_import_module(self, Head(symbols).name, import_parser)
              IN  Then(m, insert_import_symbols(m.t, Tail(symbols),
                              checked \cup {Head(symbols).name}, import_parser))

\* SymbolTable::insert_import
insert_import(self, import, import_parser) ==
    Bracket("insert_import", insert_import_symbols(self, import.symbols, {}, import_parser))

\* check_import that turns to insert_import when insert_core_package fails
check_import_fallback(self, import, import_parser) ==
    LET core_package == get_core_package(import_parser, import.package) IN
    Prepend(<< [ev |-> "get_core_package", name |-> import.package] >>,
            IF core_package # None /\ insert_core_package(self, core_package[1]).r.ok
            THEN insert_core_package(self, core_package[1])
            ELSE insert_import(self, import, import_parser))

\* SymbolTable::check_import
check_import(self, import, import_parser) ==
    LET core_package == get_core_package(import_parser, import.package) IN
    Prepend(<< [ev |-> "get_core_package", name |-> import.package] >>,
            IF core_package # None
            THEN insert_core_package(self, core_package[1])
            ELSE insert_import(self, import, import_parser))

\* SymbolTable::check_imports
check_imports(self, imports, import_parser) ==
    IF imports = <<>> THEN Out(self, Ok, <<>>)
    ELSE LET o == check_import(self, Head(imports), import_parser)
         IN  Then(o, check_imports(o.t, Tail(imports), import_parser))

\* The circuit and function stages of check_duplicate_program
check_duplicate_definitions(self, program) ==
    LET c == check_duplicate_circuits(self, program.circuits)
    IN  Then(c, check_duplicate_functions(c.t, program.functions))

\* check_duplicate_program that checks the program's own names before its imports
check_duplicate_program_names_first(self, program, import_parser) ==
    LET d == check_duplicate_definitions(self, program)
    IN  Then(d, check_imports(d.t, program.imports, import_parser))

\* SymbolTable::check_duplicate_program
check_duplicate_program(self, program, import_parser) ==
    LET i == check_imports(self, program.imports, import_parser)
    IN  Then(i, check_duplicate_definitions(i.t, program))

---------------------------------------------------------------------------
(* Constraint generation *)

\* new_scope: the scope-qualified name "<outer>::<inner>"
new_scope(outer, inner) == outer \o "::" \o inner

\* A circuit definition of a program given to the compiler
CircuitDefinition(circuit_name) == [circuit_name |-> circuit_name]

\* A function definition of a program given to the compiler: its name, the names of its
\* declared parameters and the statements of its body
FunctionDefinition(function_name, inputs, statements) ==
    [function_name |-> function_name, inputs |-> inputs, statements |-> statements]

\* ConstrainedValue::Function(circuit_identifier, function)
ConstrainedValue_Function(circuit_identifier, function) ==
    [kind |-> "Function", circuit_identifier |-> circuit_identifier, function |-> function]

\* ConstrainedValue::CircuitDefinition(circuit)
ConstrainedValue_CircuitDefinition(circuit) == [kind |-> "CircuitDefinition", circuit |-> circuit]

\* The value a return statement yields
ConstrainedValue_Return(statement) == [kind |-> "Return", statement |-> statement.id]

\* The value of a body that returns nothing
ConstrainedValue_Unit == [kind |-> "Unit"]

\* Ok(value) of Result<ConstrainedValue, CompilerError>
OkValue(value) == [ok |-> TRUE, err |-> "none", value |-> Some(value)]

\* Err(CompilerError::kind)
CompilerError(kind) == [ok |-> FALSE, err |-> kind, value |-> None]

\* The allocation of a variable in the constraint system: its name and its value,
\* None for a private witness without a value
Alloc(name, value) == [kind |-> "alloc", name |-> name, value |-> value]

\* A constraint the evaluation of a statement appends to the constraint system
Constraint(statement) == [kind |-> "enforce", statement |-> statement.id]

\* ConstrainedProgram::new
ConstrainedProgram_new == EmptyMap

\* ConstrainedProgram::store, for each definition of a sequence in its order
RECURSIVE store_definitions(_, _)
store_definitions(self, definitions) ==
    IF definitions = <<>> THEN self
    ELSE store_definitions(MapInsert(self, Head(definitions).name, Head(definitions).value),
                           Tail(definitions))

\* The packages the compiler finds when it resolves imports
ProvidedPackages == {"m"}

\* The imports of a program that the compiler does not find
MissingImports(program) ==
    SelectSeq(program.imports, LAMBDA package : package \notin ProvidedPackages)

\* The circuits of a program as stored in the flat namespace
ResolvedCircuits(program) ==
    [i \in DOMAIN program.circuits |->
        [name |-> new_scope(program.name, program.circuits[i].circuit_name),
         value |-> ConstrainedValue_CircuitDefinition(program.circuits[i])]]

\* The functions of a program as stored in the flat namespace
ResolvedFunctions(program) ==
    [i \in DOMAIN program.functions |->
        [name |-> new_scope(program.name, program.functions[i].function_name),
         value |-> ConstrainedValue_Function(None, program.functions[i])]]

\* resolve_definitions that allocates a variable for every function it stores
resolve_definitions_allocating(self, cs, program) ==
    IF MissingImports(program) # <<>>
    THEN [self |-> self, cs |-> cs, r |-> CompilerError("ImportError")]
    ELSE [self |-> store_definitions(store_definitions(self, ResolvedCircuits(program)),
                                     ResolvedFunctions(program)),
          cs |-> cs \o [i \in DOMAIN program.functions |->
                           Alloc(program.functions[i].function_name, None)],
          r |-> Ok]

\* ConstrainedProgram::resolve_definitions: store every circuit and then every function
\* of the program under its qualified name; the constraint system is left as it is
resolve_definitions(self, cs, program) ==
    IF MissingImports(program) # <<>>
    THEN [self |-> self, cs |-> cs, r |-> CompilerError("ImportError")]
    ELSE [self |-> store_definitions(store_definitions(self, ResolvedCircuits(program)),
                                     ResolvedFunctions(program)),
          cs |-> cs, r |-> Ok]

\* The allocation of the parameters of main, in declaration order
allocate_inputs(cs, scope, inputs, parameters) ==
    cs \o [i \in DOMAIN inputs |-> Alloc(new_scope(scope, inputs[i]), parameters[i])]

\* The evaluation of the statements of a body, in order: a constraint is appended, an
\* error or a return ends the evaluation
RECURSIVE enforce_statements(_, _)
enforce_statements(cs, statements) ==
    IF statements = <<>> THEN [cs |-> cs, r |-> OkValue(ConstrainedValue_Unit)]
    ELSE IF Head(statements).kind = "fail"
         THEN [cs |-> cs, r |-> CompilerError("FunctionError")]
    ELSE IF Head(statements).kind = "return"
         THEN [cs |-> cs, r |-> OkValue(ConstrainedValue_Return(Head(statements)))]
    ELSE enforce_statements(Append(cs, Constraint(Head(statements))), Tail(statements))

\* enforce_main_function that evaluates the body before it allocates the parameters
enforce_main_function_body_first(self, cs, scope, function, parameters) ==
    LET body == enforce_statements(cs, function.statements)
    IN  [cs |-> allocate_inputs(body.cs, new_scope(scope, function.function_name),
                                function.inputs, parameters),
         r |-> body.r]

\* ConstrainedProgram::enforce_main_function
enforce_main_function(self, cs, scope, function, parameters) ==
    enforce_statements(
        allocate_inputs(cs, new_scope(scope, function.function_name), function.inputs,
                        parameters),
        function.statements)

\* The outcome of generate_constraints: the constraint system it leaves, its result, the
\* flat namespace it looked main up in and the calls it made
Generated(out, resolved_program, log) ==
    [cs |-> out.cs, r |-> out.r, resolved_program |-> resolved_program, log |-> log]

\* generate_constraints, which takes the first function of the program for main
generate_constraints_first_function(cs, program, parameters) ==
    LET resolved == resolve_definitions(ConstrainedProgram_new, cs, program) IN
    IF ~resolved.r.ok
    THEN Generated(resolved, resolved.self, << "resolve_definitions" >>)
    ELSE IF program.functions = <<>>
    THEN Generated([cs |-> resolved.cs, r |-> CompilerError("NoMain")], resolved.self,
                   << "resolve_definitions", "get" >>)
    ELSE Generated(enforce_main_function(resolved.self, resolved.cs, program.name,
                                         Head(program.functions), parameters),
                   resolved.self, << "resolve_definitions", "get", "enforce_main_function" >>)

\* generate_constraints, which reports a main that is not a function as absent
generate_constraints_no_main(cs, program, parameters) ==
    LET resolved == resolve_definitions(ConstrainedProgram_new, cs, program)
        main == MapGet(resolved.self, new_scope(program.name, "main"))
    IN  IF ~resolved.r.ok
        THEN Generated(resolved, resolved.self, << "resolve_definitions" >>)
        ELSE IF main = None \/ main[1].kind # "Function"
        THEN Generated([cs |-> resolved.cs, r |-> CompilerError("NoMain")], resolved.self,
                       << "resolve_definitions", "get" >>)
        ELSE Generated(enforce_main_function(resolved.self, resolved.cs, program.name,
                                             main[1].function, parameters),
                       resolved.self,
                       << "resolve_definitions", "get", "enforce_main_function" >>)

\* generate_constraints
generate_constraints(cs, program, parameters) ==
    LET resolved == resolve_definitions(ConstrainedProgram_new, cs, program)
        main == MapGet(resolved.self, new_scope(program.name, "main"))
    IN  IF ~resolved.r.ok
        THEN Generated(resolved, resolved.self, << "resolve_definitions" >>)
        ELSE IF main = None
        THEN Generated([cs |-> resolved.cs, r |-> CompilerError("NoMain")], resolved.self,
                       << "resolve_definitions", "get" >>)
        ELSE IF main[1].kind = "Function"
        THEN Generated(enforce_main_function(resolved.self, resolved.cs, program.name,
                                             main[1].function, parameters),
                       resolved.self,
                       << "resolve_definitions", "get", "enforce_main_function" >>)
        ELSE Generated([cs |-> resolved.cs, r |-> CompilerError("NoMainFunction")],
                       resolved.self, << "resolve_definitions", "get" >>)

---------------------------------------------------------------------------
(* Field inversion *)

\* FieldError: the kinds of error of the field helpers
FieldError == {"Invalid", "NoInverse", "SynthesisError"}

\* x to the power n in the field of p elements
RECURSIVE Pow(_, _, _)
Pow(x, n, p) == IF n = 0 THEN 1 % p ELSE (x * Pow(x, n - 1, p)) % p

\* The product of two elements of the field of p elements
Mul(x, y, p) == (x * y) % p

\* The inversion of an element of the field of p elements, which does not reject zero
inverse_unchecked(x, p) == [ok |-> TRUE, err |-> "none", value |-> Some(Pow(x, p - 2, p))]

\* The inversion of an element of the field of p elements: NoInverse for zero, and
\* otherwise the power p - 2 of the element
inverse(x, p) ==
    IF x = 0 THEN [ok |-> FALSE, err |-> "NoInverse", value |-> None]
    ELSE [ok |-> TRUE, err |-> "none", value |-> Some(Pow(x, p - 2, p))]

---------------------------------------------------------------------------
(* The scope tree: tables are created, with or without a boxed parent, and *)
(* definitions are inserted in them.                                       *)

NoCall == [op |-> "none"]

\* The two runs of generate_constraints that are compared
Runs == {1, 2}

\* No run of generate_constraints yet
NoGen == [input |-> None, run |-> [r \in Runs |-> None]]

Init ==
    /\ tables = [s \in Slots |-> None]
    /\ parentOf = [s \in Slots |-> 0]
    /\ ownIns = [s \in Slots |-> {}]
    /\ ancIns = [s \in Slots |-> {}]
    /\ ops = 0
    /\ last = NoCall
    /\ gen = NoGen

\* SymbolTable::new(None) in a free slot
NewRoot(s) ==
    /\ ops < MaxScopeOps
    /\ tables[s] = None
    /\ tables' = [tables EXCEPT ![s] = Some(new(None))]
    /\ ops' = ops + 1
    /\ UNCHANGED <<gen, parentOf, ownIns, ancIns, last>>

\* SymbolTable::new(Some(Box::new(parent.clone()))) in a free slot: the child owns
\* its parent, so what is inserted in slot p afterwards is not in the child's parent.
NewChild(s, p) ==
    /\ ops < MaxScopeOps
    /\ tables[s] = None
    /\ tables[p] # None
    /\ tables' = [tables EXCEPT ![s] = Some(new(Some(tables[p][1])))]
    /\ parentOf' = [parentOf EXCEPT ![s] = p]
    /\ ancIns' = [ancIns EXCEPT ![s] = ownIns[p] \cup ancIns[p]]
    /\ ops' = ops + 1
    /\ UNCHANGED <<gen, ownIns, last>>

\* insert_circuit on the table of slot s, as its callers do: under the type's identifier
InsertCircuit(s, identifier) ==
    /\ ops < MaxScopeOps
    /\ tables[s] # None
    /\ tables' = [tables EXCEPT ![s] =
          Some(insert_circuit(tables[s][1], identifier, CircuitType(identifier, <<>>, <<>>)).t)]
    /\ ownIns' = [ownIns EXCEPT ![s] = @ \cup {<<"circuit", identifier.name>>}]
    /\ ops' = ops + 1
    /\ UNCHANGED <<gen, parentOf, ancIns, last>>

\* insert_function on the table of slot s
InsertFunction(s, identifier) ==
    /\ ops < MaxScopeOps
    /\ tables[s] # None
    /\ tables' = [tables EXCEPT ![s] =
          Some(insert_function(tables[s][1], identifier, FunctionType(identifier, <<>>, <<>>)).t)]
    /\ ownIns' = [ownIns EXCEPT ![s] = @ \cup {<<"function", identifier.name>>}]
    /\ ops' = ops + 1
    /\ UNCHANGED <<gen, parentOf, ancIns, last>>

NextScope ==
    \/ \E s \in Slots : NewRoot(s)
    \/ \E s \in Slots, p \in Slots : NewChild(s, p)
    \/ \E s \in Slots, i \in ScopeIdentifiers : InsertCircuit(s, i)
    \/ \E s \in Slots, i \in ScopeIdentifiers : InsertFunction(s, i)

SpecScope == Init /\ [][NextScope]_vars

\* get_circuit or get_function, by kind
Lookup(kind, self, name) ==
    IF kind = "circuit" THEN get_circuit(self, name) ELSE get_function(self, name)

Kinds == {"circuit", "function"}

RECURSIVE AncestorSlots(_)
\* The slots a slot's boxed ancestors were taken from
AncestorSlots(s) ==
    IF parentOf[s] = 0 THEN {} ELSE {parentOf[s]} \cup AncestorSlots(parentOf[s])

\* t is a sibling of s: another slot whose parent was taken from the same slot
IsSibling(t, s) == t # s /\ parentOf[s] # 0 /\ parentOf[t] = parentOf[s]

\* C2: get_circuit/get_function on a scope returns a definition for a name exactly
\* when the name was inserted (by insert_circuit/insert_function respectively) in the
\* scope itself or in one of its boxed ancestors; a name inserted only in a sibling
\* scope or only in a descendant scope is absent.
C2_ScopeVisibility ==
    \A s \in Slots : tables[s] # None =>
        \A k \in Kinds, n \in ScopeNames :
            /\ (Lookup(k, tables[s][1], n) # None) <=> (<<k, n>> \in ownIns[s] \cup ancIns[s])
            /\ \A t \in Slots :
                  ( /\ IsSibling(t, s) \/ s \in AncestorSlots(t)
                    /\ <<k, n>> \in ownIns[t]
                    /\ <<k, n>> \notin ownIns[s] \cup ancIns[s] )
                  => Lookup(k, tables[s][1], n) = None

\* C2 witness: a child sees a circuit inserted only in its parent, and does not see
\* a function inserted only in its sibling nor one inserted only in its own child.
C2_Witness ==
    \E s \in Slots, t \in Slots, n \in ScopeNames, m \in ScopeNames :
        /\ tables[s] # None /\ tables[t] # None
        /\ IsSibling(t, s) \/ s \in AncestorSlots(t)
        /\ <<"circuit", n>> \in ancIns[s] \ ownIns[s]
        /\ get_circuit(tables[s][1], n) # None
        /\ <<"function", m>> \in ownIns[t]
        /\ get_function(tables[s][1], m) = None

---------------------------------------------------------------------------
(* Handlers on one table.  A call leaves its inputs, the table before it   *)
(* and what it returned in last; Return is the caller taking the result.   *)

\* The table the handlers work on
T == tables[1][1]

InitTable ==
    /\ tables = [s \in Slots |-> IF s = 1 THEN Some(new(None)) ELSE None]
    /\ parentOf = [s \in Slots |-> 0]
    /\ ownIns = [s \in Slots |-> {}]
    /\ ancIns = [s \in Slots |-> {}]
    /\ ops = 0
    /\ last = NoCall
    /\ gen = NoGen

\* A call of a handler on the table: the table becomes the one the handler leaves
Called(op, arg, out) ==
    /\ last = NoCall
    /\ tables' = [tables EXCEPT ![1] = Some(out.t)]
    /\ last' = [op |-> op, pre |-> T, arg |-> arg, out |-> out]
    /\ UNCHANGED <<gen, parentOf, ownIns, ancIns, ops>>

Return ==
    /\ last # NoCall
    /\ last' = NoCall
    /\ UNCHANGED <<gen, tables, parentOf, ownIns, ancIns, ops>>

DefNames == {"A", "B"}

DefIdentifiers == {Identifier(n, s) : n \in DefNames, s \in Spans}

\* The elements of a sequence
Range(q) == {q[i] : i \in DOMAIN q}

\* The sequences without repetition of elements of S, of length at most n: the
\* iteration orders of the maps of at most n entries
DistinctSeqs(S, n) ==
    UNION {{q \in [1..k -> S] : \A i \in 1..k, j \in 1..k : q[i] = q[j] => i = j} :
           k \in 0..n}

\* Circuits and functions without member types
PlainCircuits == {Circuit(i, <<>>) : i \in DefIdentifiers}

PlainFunctions == {Function(i, <<>>) : i \in DefIdentifiers}

PlainCircuitMaps == DistinctSeqs(PlainCircuits, MaxDefs)

PlainFunctionMaps == DistinctSeqs(PlainFunctions, MaxDefs)

\* Programs without imports, of at most MaxDefs definitions
SmallPrograms ==
    {p \in {Program("m", <<>>, cs, fs) : cs \in PlainCircuitMaps, fs \in PlainFunctionMaps} :
        Len(p.circuits) + Len(p.functions) <= MaxDefs}

ImportSymbols ==
    {ImportSymbol(n, a) : n \in DefNames \cup {"*"}, a \in {None} \cup {Some(x) : x \in DefNames}}

CallCheckDuplicateCircuits(circuits) ==
    Called("check_duplicate_circuits", circuits, check_duplicate_circuits(T, circuits))

CallCheckDuplicateFunctions(functions) ==
    Called("check_duplicate_functions", functions, check_duplicate_functions(T, functions))

CallInsertImportSymbol(symbol, program) ==
    Called("insert_import_symbol", [symbol |-> symbol, program |-> program],
           insert_import_symbol(T, symbol, program))

NextDup ==
    \/ last = NoCall /\ \E circuits \in PlainCircuitMaps : CallCheckDuplicateCircuits(circuits)
    \/ last = NoCall /\ \E functions \in PlainFunctionMaps : CallCheckDuplicateFunctions(functions)
    \/ last = NoCall /\ \E symbol \in ImportSymbols, program \in SmallPrograms :
                           CallInsertImportSymbol(symbol, program)
    \/ Return

SpecDup == InitTable /\ [][NextDup]_vars

---------------------------------------------------------------------------
(* A type-check pass over one program: check_duplicate_program on a fresh  *)
(* table, then check_unknown_types_program on the same program.            *)

MaxItems == 3

\* The imported modules: m is well formed, d declares one circuit name twice, u has a
\* member of an undeclared type, n imports m and refers to a circuit of m
ModuleM ==
    Program("m", <<>>, << Circuit(Identifier("B", 3), <<>>) >>,
            << Function(Identifier("f", 3), <<"B">>) >>)

ModuleD ==
    Program("d", <<>>, << Circuit(Identifier("D", 3), <<>>), Circuit(Identifier("D", 4), <<>>) >>,
            <<>>)

ModuleU == Program("u", <<>>, << Circuit(Identifier("U", 3), <<"Z">>) >>, <<>>)

ModuleN ==
    Program("n",
            << ImportStatement("m", << [name |-> "m", symbol |-> ImportSymbol("B", None)] >>) >>,
            << Circuit(Identifier("N", 3), <<"B">>) >>, <<>>)

\* The import parser: the parsed modules by name, and the core packages by name
ImportParser ==
    [imports |-> [x \in {"m", "d", "u", "n"} |->
                     CASE x = "m" -> ModuleM [] x = "d" -> ModuleD
                       [] x = "u" -> ModuleU [] x = "n" -> ModuleN],
     core_packages |-> [x \in {"core", "badcore"} |->
                     IF x = "core"
                     THEN Package("core", TRUE, << Circuit(Identifier("K", 3), <<>>) >>)
                     ELSE Package("badcore", FALSE, <<>>)]]

\* Import statements: one symbol of a package that is a module, a core package or
\* unknown ("x"), and two symbols of module m
ImportPool ==
    {ImportStatement(p, << [name |-> p, symbol |-> ImportSymbol("B", None)] >>) :
        p \in {"m", "d", "u", "n", "x", "core", "badcore"}}
    \cup {ImportStatement("m", << [name |-> "m", symbol |-> ImportSymbol("B", None)],
                                  [name |-> "m", symbol |-> ImportSymbol("f", None)] >>)}

\* Circuits of a program: members that refer to the circuit itself, to the other
\* circuit, to an undeclared type Z, and a second definition of the name A
CircuitPool ==
    {Circuit(Identifier("A", 1), r) : r \in {<<>>, <<"A", "B">>, <<"Z">>}}
    \cup {Circuit(Identifier("B", 1), r) : r \in {<<>>, <<"A">>}}
    \cup {Circuit(Identifier("A", 2), <<>>)}

\* Functions of a program: signatures over a circuit or the undeclared Z, a function
\* named like a circuit, and a second definition of the name f
FunctionPool ==
    {Function(Identifier("f", 1), r) : r \in {<<>>, <<"A">>, <<"Z">>}}
    \cup {Function(Identifier("A", 1), <<>>), Function(Identifier("f", 2), <<>>)}

\* The sequences of elements of S of length at most n
Seqs(S, n) == UNION {[1..k -> S] : k \in 0..n}

\* The programs of at most MaxItems imports and definitions
Programs ==
    UNION {UNION {{Program("main", is, cs, fs) :
                      fs \in DistinctSeqs(FunctionPool, MaxItems - Len(is) - Len(cs))} :
                  cs \in DistinctSeqs(CircuitPool, MaxItems - Len(is))} :
           is \in Seqs(ImportPool, MaxItems)}

CallCheckDuplicateProgram(program) ==
    /\ T = new(None)
    /\ Called("check_duplicate_program", [program |-> program],
              check_duplicate_program(T, program, ImportParser))

\* The second pass, over the program whose names check_duplicate_program has accepted
CallCheckUnknownTypesProgram ==
    /\ last.op = "check_duplicate_program"
    /\ last.out.r.ok
    /\ LET out == check_unknown_types_program(T, last.arg.program) IN
       /\ tables' = [tables EXCEPT ![1] = Some(out.t)]
       /\ last' = [op |-> "check_unknown_types_program", pre |-> T,
                   arg |-> last.arg, out |-> out]
    /\ UNCHANGED <<gen, parentOf, ownIns, ancIns, ops>>

\* The pass is over: the table is dropped and the next unit gets a new one
DropTable ==
    /\ last # NoCall
    /\ last' = NoCall
    /\ tables' = [tables EXCEPT ![1] = Some(new(None))]
    /\ UNCHANGED <<gen, parentOf, ownIns, ancIns, ops>>

NextProg ==
    \/ last = NoCall /\ \E program \in Programs : CallCheckDuplicateProgram(program)
    \/ CallCheckUnknownTypesProgram
    \/ DropTable

SpecProg == InitTable /\ [][NextProg]_vars

---------------------------------------------------------------------------
(* insert_input on a table that may hold a declared name and circuits that *)
(* bear the names of the input circuits.                                   *)

MaxSection == 1

\* The values of one input section: a primitive one and one of the named type A
InputValues == {[name |-> "r0", type |-> "u8"], [name |-> "r1", type |-> "A"]}

Sections == DistinctSeqs(InputValues, MaxSection)

Inputs == {Input(a, b, c, d) : a \in Sections, b \in Sections, c \in Sections, d \in Sections}

\* The circuits a table may hold before insert_input
EarlierCircuits == {Identifier(n, 1) : n \in {INPUT_VARIABLE_NAME, REGISTERS_VARIABLE_NAME, "A"}}

CallInsertInput(input) == Called("insert_input", [input |-> input], insert_input(T, input))

CallInsertCircuitName(name, variable_type) ==
    Called("insert_circuit_name", [name |-> name, variable_type |-> variable_type],
           insert_circuit_name(T, name, variable_type))

CallInsertCircuit(identifier) ==
    /\ identifier.name \notin DOMAIN T.circuits
    /\ Called("insert_circuit", [identifier |-> identifier],
              InsertCircuitType(T, CircuitType(identifier, <<>>, <<>>)))

\* The caller takes the result of a call made before insert_input
ReturnEarlier == last.op # "insert_input" /\ Return

\* The table that holds the input circuits is dropped with its scope
DropInputTable == last.op = "insert_input" /\ DropTable

NextInput ==
    \/ last = NoCall /\ \E input \in Inputs : CallInsertInput(input)
    \/ last = NoCall /\ "A" \notin DOMAIN T.names
                     /\ CallInsertCircuitName("A", [kind |-> "circuit", name |-> "A", span |-> 1])
    \/ last = NoCall /\ \E identifier \in EarlierCircuits : CallInsertCircuit(identifier)
    \/ ReturnEarlier
    \/ DropInputTable

SpecInput == InitTable /\ [][NextInput]_vars

---------------------------------------------------------------------------
(* generate_constraints, run twice on one program and parameter list, each *)
(* run on its own instance of the program and on an empty constraint       *)
(* system.                                                                 *)

MaxStatements == 2

MaxInputs == 2

InputNames == << "a", "b", "c" >>

\* The statements of a body: two that append a constraint, one that fails, one that returns
StatementPool ==
    {[kind |-> "constrain", id |-> 1], [kind |-> "constrain", id |-> 2],
     [kind |-> "fail", id |-> 3], [kind |-> "return", id |-> 4]}

\* The functions named main
MainFunctions ==
    {FunctionDefinition("main", SubSeq(InputNames, 1, k), body) :
        k \in 0..MaxInputs, body \in Seqs(StatementPool, MaxStatements)}

\* A function that is not main
HelperFunction == FunctionDefinition("f", <<>>, << [kind |-> "constrain", id |-> 2] >>)

CircuitLists ==
    {<<>>, << CircuitDefinition("C") >>, << CircuitDefinition("main") >>,
     << CircuitDefinition("C"), CircuitDefinition("main") >>}

FunctionLists ==
    {<<>>, << HelperFunction >>}
    \cup {<< m >> : m \in MainFunctions} \cup {<< m, HelperFunction >> : m \in MainFunctions}

\* The programs given to the compiler: no import, an import the parser provides, or an
\* import it does not provide
CompiledPrograms ==
    {Program("p", is, cs, fs) :
        is \in {<<>>, << "m" >>, << "x" >>}, cs \in CircuitLists, fs \in FunctionLists}

\* The values given for the parameters of main
ParameterValues == {None, Some(1)}

\* The number of parameters the program's main declares, none if it has no main
DeclaredInputs(program) ==
    LET mains == SelectSeq(program.functions, LAMBDA f : f.function_name = "main")
    IN  IF mains = <<>> THEN 0 ELSE Len(mains[1].inputs)

\* The parameter lists with one entry per declared parameter of main
ParameterLists(program) == [1..DeclaredInputs(program) -> ParameterValues]

\* The orders in which a map of these values may iterate
Orders(values) == {q \in [DOMAIN values -> Range(values)] : Range(q) = Range(values)}

\* The instances of a program: equal programs whose maps iterate in any order
Instances(program) ==
    {Program(program.name, program.imports, cs, fs) :
        cs \in Orders(program.circuits), fs \in Orders(program.functions)}

\* A run of generate_constraints on an instance of the program, from an empty
\* constraint system
RunOf(instance, parameters) ==
    [instance |-> instance, out |-> generate_constraints(<<>>, instance, parameters)]

\* The first run
GenerateConstraints(program, parameters) ==
    /\ gen = NoGen
    /\ \E instance \in Instances(program) :
          gen' = [input |-> Some([program |-> program, parameters |-> parameters]),
                  run |-> [r \in Runs |->
                              IF r = 1 THEN Some(RunOf(instance, parameters)) ELSE None]]
    /\ UNCHANGED <<tables, parentOf, ownIns, ancIns, ops, last>>

\* The second run, on the same program and the same parameters
GenerateConstraintsAgain ==
    /\ gen.input # None
    /\ gen.run[2] = None
    /\ \E instance \in Instances(gen.input[1].program) :
          gen' = [gen EXCEPT !.run[2] = Some(RunOf(instance, gen.input[1].parameters))]
    /\ UNCHANGED <<tables, parentOf, ownIns, ancIns, ops, last>>

\* The results of the runs are dropped
DropRuns ==
    /\ gen.input # None
    /\ gen' = NoGen
    /\ UNCHANGED <<tables, parentOf, ownIns, ancIns, ops, last>>

NextGen ==
    \/ gen = NoGen /\ \E program \in CompiledPrograms :
                         \E parameters \in ParameterLists(program) :
                            GenerateConstraints(program, parameters)
    \/ GenerateConstraintsAgain
    \/ DropRuns

SpecGen == InitTable /\ [][NextGen]_vars

---------------------------------------------------------------------------
(* Inversion in the prime fields of at most MaxPrime elements.             *)

MaxPrime == 31

Primes == {n \in 2..MaxPrime : \A d \in 2..(n - 1) : n % d # 0}

CallInverse(x, p) ==
    /\ last = NoCall
    /\ last' = [op |-> "inverse", arg |-> [x |-> x, p |-> p], out |-> inverse(x, p)]
    /\ UNCHANGED <<tables, parentOf, ownIns, ancIns, ops, gen>>

NextField ==
    \/ last = NoCall /\ \E p \in Primes : \E x \in 0..(p - 1) : CallInverse(x, p)
    \/ Return

SpecField == InitTable /\ [][NextField]_vars

---------------------------------------------------------------------------
(* insert_import and check_import of one statement on a table that may     *)
(* hold a name that a module or the core package declares.                 *)

MaxSymbols == 2

\* The module names a statement may refer to: the modules of the parser and the
\* unknown x
ModuleNames == {"m", "d", "u", "n", "x"}

\* The pairs of a module name and a symbol that ImportedSymbols::from lists
ImportedSymbolPool ==
    {[name |-> module, symbol |-> ImportSymbol("B", None)] : module \in ModuleNames}
    \cup {[name |-> "m", symbol |-> ImportSymbol("f", None)]}

\* The statements of one to MaxSymbols symbols, of a package that is a core package
\* or is not
ImportStatements ==
    {ImportStatement(package, symbols) :
        package \in {"lib", "core", "badcore"},
        symbols \in Seqs(ImportedSymbolPool, MaxSymbols) \ {<<>>}}

CallInsertImport(import) ==
    Called("insert_import", [import |-> import], insert_import(T, import, ImportParser))

CallCheckImport(import) ==
    Called("check_import", [import |-> import], check_import(T, import, ImportParser))

\* The caller takes the result of a registration made before the import
ReturnRegistered == last.op = "insert_circuit_name" /\ Return

\* The table the import was checked in is dropped with its scope
DropImportTable == last.op \in {"insert_import", "check_import"} /\ DropTable

NextImport ==
    \/ last = NoCall /\ \E import \in ImportStatements : CallInsertImport(import)
    \/ last = NoCall /\ \E import \in ImportStatements : CallCheckImport(import)
    \/ last = NoCall /\ \E name \in {"B", "K"} :
          /\ name \notin DOMAIN T.names
          /\ CallInsertCircuitName(name, [kind |-> "circuit", name |-> name, span |-> 1])
    \/ ReturnRegistered
    \/ DropImportTable

SpecImport == InitTable /\ [][NextImport]_vars

---------------------------------------------------------------------------
(* Two scope levels: the table of slot 1 and a child of it in slot 2.  The *)
(* definitions of a level bear the level's slot as their span.             *)

LevelSlots == {1, 2}

LevelNames == {"a"}

\* insert_circuit_name on the table of slot s
RegisterCircuitName(s, identifier) ==
    /\ ops < MaxScopeOps
    /\ tables[s] # None
    /\ LET out == insert_circuit_name(tables[s][1], identifier.name,
                      [kind |-> "circuit", name |-> identifier.name, span |-> identifier.span])
       IN  /\ tables' = [tables EXCEPT ![s] = Some(out.t)]
           /\ last' = [op |-> "insert_circuit_name", slot |-> s, pre |-> tables[s][1],
                       own |-> ownIns[s], anc |-> ancIns[s],
                       arg |-> [name |-> identifier.name], out |-> out]
    /\ ownIns' = [ownIns EXCEPT ![s] = @ \cup {<<"name", identifier.name>>}]
    /\ ops' = ops + 1
    /\ UNCHANGED <<gen, parentOf, ancIns>>

\* insert_function_name on the table of slot s
RegisterFunctionName(s, identifier) ==
    /\ ops < MaxScopeOps
    /\ tables[s] # None
    /\ LET out == insert_function_name(tables[s][1], identifier.name,
                      [kind |-> "function", name |-> identifier.name, span |-> identifier.span])
       IN  /\ tables' = [tables EXCEPT ![s] = Some(out.t)]
           /\ last' = [op |-> "insert_function_name", slot |-> s, pre |-> tables[s][1],
                       own |-> ownIns[s], anc |-> ancIns[s],
                       arg |-> [name |-> identifier.name], out |-> out]
    /\ ownIns' = [ownIns EXCEPT ![s] = @ \cup {<<"name", identifier.name>>}]
    /\ ops' = ops + 1
    /\ UNCHANGED <<gen, parentOf, ancIns>>

NextLevels ==
    \/ NewChild(2, 1)
    \/ \E s \in LevelSlots, n \in LevelNames : RegisterCircuitName(s, Identifier(n, s))
    \/ \E s \in LevelSlots, n \in LevelNames : RegisterFunctionName(s, Identifier(n, s))
    \/ \E s \in LevelSlots, n \in LevelNames : InsertCircuit(s, Identifier(n, s))
    \/ \E s \in LevelSlots, n \in LevelNames : InsertFunction(s, Identifier(n, s))

SpecLevels == InitTable /\ [][NextLevels]_vars

---------------------------------------------------------------------------
(* Registrations of circuit and function names on one table that may hold  *)
(* circuit types.                                                          *)

CallInsertFunctionName(name, variable_type) ==
    Called("insert_function_name", [name |-> name, variable_type |-> variable_type],
           insert_function_name(T, name, variable_type))

NextNames ==
    \/ last = NoCall /\ \E identifier \in DefIdentifiers :
          CallInsertCircuitName(identifier.name,
              [kind |-> "circuit", name |-> identifier.name, span |-> identifier.span])
    \/ last = NoCall /\ \E identifier \in DefIdentifiers :
          CallInsertFunctionName(identifier.name,
              [kind |-> "function", name |-> identifier.name, span |-> identifier.span])
    \/ last = NoCall /\ \E identifier \in DefIdentifiers : CallInsertCircuit(identifier)
    \/ Return

SpecNames == InitTable /\ [][NextNames]_vars

---------------------------------------------------------------------------
(* The passes of one compilation, one at a time: the type-check pass over  *)
(* a program, or constraint generation.                                    *)

NextPasses ==
    \/ gen = NoGen /\ NextProg
    \/ last = NoCall /\ T = new(None) /\ NextGen

SpecPasses == InitTable /\ [][NextPasses]_vars

---------------------------------------------------------------------------
(* insert_input on one of two scope levels, a table and a child that boxes *)
(* it, which may hold the declared type A and circuits and functions that  *)
(* bear the names of input circuits.                                       *)

\* The names of input circuits that a level may hold a circuit or a function under
InputLevelNames == {INPUT_VARIABLE_NAME, REGISTERS_VARIABLE_NAME}

\* The inputs whose first and last sections hold at most MaxSection values together
LevelInputs ==
    {i \in {Input(a, <<>>, <<>>, d) : a \in Sections, d \in Sections} :
        Len(i.registers) + Len(i.state_leaf) <= MaxSection}

\* insert_circuit_name on the table of slot s, of a name the level does not hold
DeclareCircuit(s, name) ==
    /\ ops < MaxScopeOps
    /\ tables[s] # None
    /\ name \notin DOMAIN tables[s][1].names
    /\ tables' = [tables EXCEPT ![s] =
          Some(insert_circuit_name(tables[s][1], name,
                                   [kind |-> "circuit", name |-> name, span |-> s]).t)]
    /\ ownIns' = [ownIns EXCEPT ![s] = @ \cup {<<"name", name>>}]
    /\ ops' = ops + 1
    /\ UNCHANGED <<gen, parentOf, ancIns, last>>

\* insert_input on the table of slot s
InsertInput(s, input) ==
    /\ last = NoCall
    /\ tables[s] # None
    /\ LET out == insert_input(tables[s][1], input) IN
       /\ tables' = [tables EXCEPT ![s] = Some(out.t)]
       /\ last' = [op |-> "insert_input", slot |-> s, pre |-> tables[s][1],
                   arg |-> [input |-> input], out |-> out]
       /\ ownIns' = [ownIns EXCEPT ![s] =
             @ \cup {<<"circuit", out.log[i].name>> :
                        i \in {k \in DOMAIN out.log : out.log[k].ev = "insert_circuit"}}]
    /\ UNCHANGED <<gen, parentOf, ancIns, ops>>

NextInputLevels ==
    \/ last = NoCall /\ NewChild(2, 1)
    \/ last = NoCall /\ \E s \in LevelSlots : DeclareCircuit(s, "A")
    \/ last = NoCall /\ \E s \in LevelSlots, n \in InputLevelNames :
                           InsertCircuit(s, Identifier(n, s))
    \/ last = NoCall /\ \E s \in LevelSlots :
                           InsertFunction(s, Identifier(INPUT_VARIABLE_NAME, s))
    \/ \E s \in LevelSlots, input \in LevelInputs : InsertInput(s, input)

SpecInputLevels == InitTable /\ [][NextInputLevels]_vars

---------------------------------------------------------------------------
(* Properties *)

\* The least element of a nonempty set of numbers
Least(S) == CHOOSE i \in S : \A j \in S : i <= j

\* The name a definition is registered under
NameOf(def) == IF "circuit_name" \in DOMAIN def THEN def.circuit_name.name ELSE def.identifier.name

\* The type a definition is registered with
TypeOf(def) ==
    IF "circuit_name" \in DOMAIN def
    THEN [kind |-> "circuit", name |-> def.circuit_name.name, span |-> def.circuit_name.span]
    ELSE [kind |-> "function", name |-> def.identifier.name, span |-> def.identifier.span]

\* The positions of defs whose name is registered in names or borne by an earlier
\* definition of defs
Collisions(names, defs) ==
    {i \in DOMAIN defs :
        \/ NameOf(defs[i]) \in DOMAIN names
        \/ \E j \in 1..(i - 1) : NameOf(defs[j]) = NameOf(defs[i])}

\* The type registered under the name of defs[i] once the definitions before it are
PriorType(names, defs, i) ==
    IF \E j \in 1..(i - 1) : NameOf(defs[j]) = NameOf(defs[i])
    THEN TypeOf(defs[CHOOSE j \in 1..(i - 1) : NameOf(defs[j]) = NameOf(defs[i])])
    ELSE names[NameOf(defs[i])]

\* C1: check_duplicate_circuits returns a duplicate-circuit error carrying the type
\* registered before whenever a given circuit name is already registered at the level
\* (by an earlier call or an earlier circuit of the same map); when no name collides it
\* returns Ok and every given circuit name is registered at the level.
C1_DuplicateCircuits ==
    last.op = "check_duplicate_circuits" =>
        LET circuits == last.arg
            pre == last.pre.names
            post == last.out.t.names
            hits == Collisions(pre, circuits)
        IN  IF hits # {}
            THEN last.out.r = Err("duplicate_circuit", PriorType(pre, circuits, Least(hits)))
            ELSE /\ last.out.r = Ok
                 /\ \A i \in DOMAIN circuits :
                       /\ NameOf(circuits[i]) \in DOMAIN post
                       /\ post[NameOf(circuits[i])] = TypeOf(circuits[i])

\* C1 witness: on a level that holds a name of an earlier call, two circuits of one map
\* share a name that was not registered, and the error carries the first one's type
C1_Witness ==
    /\ last.op = "check_duplicate_circuits"
    /\ DOMAIN last.pre.names # {}
    /\ Len(last.arg) = 2
    /\ NameOf(last.arg[1]) = NameOf(last.arg[2])
    /\ NameOf(last.arg[1]) \notin DOMAIN last.pre.names
    /\ last.out.r = Err("duplicate_circuit", TypeOf(last.arg[1]))

\* C7: for a non-star symbol, insert_import_symbol looks the symbol's original name up
\* in the program's circuits and only on a miss in its functions; it fails with an
\* unknown-symbol error exactly when neither holds the name, and otherwise registers the
\* match under the alias (or the original name when there is none), failing with a
\* duplicate error if that name is already registered.
C7_ImportSymbol ==
    (last.op = "insert_import_symbol" /\ ~is_star(last.arg.symbol)) =>
        LET symbol == last.arg.symbol
            program == last.arg.program
            pre == last.pre.names
            post == last.out.t.names
            key == IF symbol.alias = None THEN symbol.symbol ELSE symbol.alias[1]
            cs == {i \in DOMAIN program.circuits : NameOf(program.circuits[i]) = symbol.symbol}
            fs == {i \in DOMAIN program.functions : NameOf(program.functions[i]) = symbol.symbol}
            match == IF cs # {} THEN program.circuits[Least(cs)]
                     ELSE program.functions[Least(fs)]
            dup == IF cs # {} THEN "duplicate_circuit" ELSE "duplicate_function"
        IN  /\ (last.out.r.err = "unknown_symbol") <=> (cs = {} /\ fs = {})
            /\ (cs = {} /\ fs = {}) =>
                  /\ last.out.r = Err("unknown_symbol", [name |-> symbol.symbol])
                  /\ last.out.t = last.pre
            /\ (cs # {} \/ fs # {}) =>
                  /\ post = MapInsert(pre, key, TypeOf(match))
                  /\ last.out.r = IF key \in DOMAIN pre THEN Err(dup, pre[key]) ELSE Ok

\* C7 witness: an aliased symbol that is both a circuit and a function of the program
\* is registered as the circuit under the alias; and the alias is not a name of the program
C7_Witness ==
    /\ last.op = "insert_import_symbol"
    /\ ~is_star(last.arg.symbol)
    /\ last.arg.symbol.alias # None
    /\ last.arg.symbol.alias[1] # last.arg.symbol.symbol
    /\ \E i \in DOMAIN last.arg.program.circuits :
          NameOf(last.arg.program.circuits[i]) = last.arg.symbol.symbol
    /\ \E i \in DOMAIN last.arg.program.functions :
          NameOf(last.arg.program.functions[i]) = last.arg.symbol.symbol
    /\ last.out.r = Ok
    /\ last.out.t.names[last.arg.symbol.alias[1]].kind = "circuit"

\* C8: for a star import, insert_import_symbol registers the circuit names and then the
\* function names of the program; it returns a duplicate error, never Ok, whenever one of
\* them is already registered at the level or borne by an earlier definition of the
\* program, and otherwise returns Ok with every name of the program registered.
C8_StarImport ==
    (last.op = "insert_import_symbol" /\ is_star(last.arg.symbol)) =>
        LET program == last.arg.program
            defs == program.circuits \o program.functions
            pre == last.pre.names
            post == last.out.t.names
            hits == Collisions(pre, defs)
            log == last.out.log
        IN  /\ \A i \in DOMAIN log, j \in DOMAIN log :
                  (log[i].ev = "insert_function_name" /\ log[j].ev = "insert_circuit_name")
                  => j < i
            /\ IF hits # {}
               THEN /\ ~last.out.r.ok
                    /\ last.out.r =
                          Err(IF Least(hits) <= Len(program.circuits)
                              THEN "duplicate_circuit" ELSE "duplicate_function",
                              PriorType(pre, defs, Least(hits)))
               ELSE /\ last.out.r = Ok
                    /\ DOMAIN post = DOMAIN pre \cup {NameOf(defs[i]) : i \in DOMAIN defs}
                    /\ \A i \in DOMAIN defs : post[NameOf(defs[i])] = TypeOf(defs[i])
                    /\ [i \in DOMAIN log |-> log[i].name] = [i \in DOMAIN defs |-> NameOf(defs[i])]

\* C8 witness: a star import of a program whose function bears the name of one of its
\* own circuits, on a level where neither name is registered, ends in a duplicate error
C8_Witness ==
    /\ last.op = "insert_import_symbol"
    /\ is_star(last.arg.symbol)
    /\ Len(last.arg.program.circuits) = 1
    /\ Len(last.arg.program.functions) = 1
    /\ NameOf(last.arg.program.circuits[1]) = NameOf(last.arg.program.functions[1])
    /\ NameOf(last.arg.program.circuits[1]) \notin DOMAIN last.pre.names
    /\ last.out.r.err = "duplicate_function"

\* The type names the definitions of a program refer to
RefsOf(program) ==
    UNION {Range(program.circuits[i].refs) : i \in DOMAIN program.circuits}
    \cup UNION {Range(program.functions[i].refs) : i \in DOMAIN program.functions}

\* C9: after check_duplicate_program has succeeded for a program,
\* check_unknown_types_program succeeds exactly when every type name a circuit member or
\* a function signature refers to is a declared name, whatever the iteration order: a
\* definition may refer to itself, to another one or to one visited later; on success
\* every circuit and function of the program has its full type in the circuit/function map.
C9_UnknownTypes ==
    last.op = "check_unknown_types_program" =>
        LET program == last.arg.program
            declared == DOMAIN last.pre.names
            post == last.out.t
        IN  /\ last.out.r.ok <=> (RefsOf(program) \subseteq declared)
            /\ ~last.out.r.ok => last.out.r.err = "unknown_type"
            /\ last.out.r.ok =>
                  /\ \A i \in DOMAIN program.circuits :
                        get_circuit(post, NameOf(program.circuits[i])) =
                            Some(CircuitType(program.circuits[i].circuit_name,
                                             program.circuits[i].refs, <<>>))
                  /\ \A i \in DOMAIN program.functions :
                        get_function(post, NameOf(program.functions[i])) =
                            Some(FunctionType(program.functions[i].identifier,
                                              program.functions[i].refs, <<>>))

\* C9 witness: circuit A, visited first, refers to itself and to B, B refers to A, a
\* function refers to A, and the program is accepted
C9_Witness ==
    /\ last.op = "check_unknown_types_program"
    /\ last.out.r.ok
    /\ Len(last.arg.program.circuits) = 2
    /\ last.arg.program.circuits[1].refs = <<"A", "B">>
    /\ NameOf(last.arg.program.circuits[1]) = "A"
    /\ last.arg.program.circuits[2].refs = <<"A">>
    /\ NameOf(last.arg.program.circuits[2]) = "B"
    /\ Len(last.arg.program.functions) = 1
    /\ last.arg.program.functions[1].refs = <<"A">>
    /\ DOMAIN last.out.t.circuits = {"A", "B"}

\* The positions of the log at which a name of one of defs is registered
OwnEvents(log, defs) ==
    {i \in DOMAIN log :
        /\ log[i].ev \in {"insert_circuit_name", "insert_function_name"}
        /\ \E j \in DOMAIN defs : log[i].ty = TypeOf(defs[j])}

\* The name map once the names of defs, none of which collides, are registered
Registered(names, defs) ==
    [x \in DOMAIN names \cup {NameOf(defs[i]) : i \in DOMAIN defs} |->
        IF \E i \in DOMAIN defs : NameOf(defs[i]) = x
        THEN TypeOf(defs[CHOOSE i \in DOMAIN defs : NameOf(defs[i]) = x])
        ELSE names[x]]

\* C10: check_duplicate_program handles the imports, then the circuit names, then the
\* function names, and stops at the first failure: when an import fails no circuit or
\* function name of the program has been registered, when a circuit name collides no
\* function name has been, and the error returned is that of the earliest failing stage.
C10_StageOrder ==
    last.op = "check_duplicate_program" =>
        LET program == last.arg.program
            out == last.out
            imports == check_imports(last.pre, program.imports, ImportParser)
            ownC == OwnEvents(out.log, program.circuits)
            ownF == OwnEvents(out.log, program.functions)
            chits == Collisions(imports.t.names, program.circuits)
            fhits == Collisions(Registered(imports.t.names, program.circuits),
                                program.functions)
        IN  /\ SubSeq(out.log, 1, Len(imports.log)) = imports.log
            /\ \A i \in ownC \cup ownF : i > Len(imports.log)
            /\ \A i \in ownC, j \in ownF : i < j
            /\ ~imports.r.ok =>
                  out.r = imports.r /\ out.t = imports.t /\ ownC = {} /\ ownF = {}
            /\ (imports.r.ok /\ chits # {}) =>
                  out.r.err = "duplicate_circuit" /\ ownF = {}
            /\ (imports.r.ok /\ chits = {} /\ fhits # {}) =>
                  out.r.err = "duplicate_function" /\ Cardinality(ownC) = Len(program.circuits)
            /\ (imports.r.ok /\ chits = {} /\ fhits = {}) =>
                  /\ out.r = Ok
                  /\ Cardinality(ownC) = Len(program.circuits)
                  /\ Cardinality(ownF) = Len(program.functions)

\* C10 witness: the import of a module succeeds, a circuit of the program bears a name
\* the module registered, and the program's function is never reached
C10_Witness ==
    /\ last.op = "check_duplicate_program"
    /\ last.arg.program.imports # <<>>
    /\ last.arg.program.circuits # <<>>
    /\ last.arg.program.functions # <<>>
    /\ check_imports(last.pre, last.arg.program.imports, ImportParser).r.ok
    /\ last.out.r.err = "duplicate_circuit"
    /\ OwnEvents(last.out.log, last.arg.program.circuits) # {}
    /\ OwnEvents(last.out.log, last.arg.program.functions) = {}

\* The names of the five input circuits, in the order insert_input inserts them
InputCircuitNames ==
    << REGISTERS_VARIABLE_NAME, RECORD_VARIABLE_NAME, STATE_VARIABLE_NAME,
       STATE_LEAF_VARIABLE_NAME, INPUT_VARIABLE_NAME >>

\* C4: every insert_input that returns Ok inserts exactly the five circuits registers,
\* record, state, state_leaf and input in the circuit map of the level, whichever sections
\* are empty; the input circuit has exactly the four member variables registers, record,
\* state, state_leaf, in that order, and no member function.
C4_InputCircuits ==
    (last.op = "insert_input" /\ last.out.r.ok) =>
        LET pre == last.pre.circuits
            post == last.out.t.circuits
            log == last.out.log
        IN  /\ [i \in DOMAIN log |-> log[i].name] = InputCircuitNames
            /\ \A i \in DOMAIN log : log[i].ev = "insert_circuit"
            /\ DOMAIN post = DOMAIN pre \cup Range(InputCircuitNames)
            /\ \A x \in DOMAIN pre \ Range(InputCircuitNames) : post[x] = pre[x]
            /\ \A i \in 1..4 :
                  /\ post[InputCircuitNames[i]].identifier.name = InputCircuitNames[i]
                  /\ post[InputCircuitNames[i]].variables =
                        last.arg.input[InputCircuitNames[i]]
            /\ Len(post[INPUT_VARIABLE_NAME].variables) = 4
            /\ \A i \in 1..4 :
                  post[INPUT_VARIABLE_NAME].variables[i].identifier.name = InputCircuitNames[i]
            /\ post[INPUT_VARIABLE_NAME].functions = <<>>

\* C4 witness: insert_input with four empty sections returns Ok and leaves the five
\* circuits in a circuit map that held none of them
C4_Witness ==
    /\ last.op = "insert_input"
    /\ last.out.r.ok
    /\ last.arg.input = Input(<<>>, <<>>, <<>>, <<>>)
    /\ DOMAIN last.pre.circuits \cap Range(InputCircuitNames) = {}
    /\ Range(InputCircuitNames) \subseteq DOMAIN last.out.t.circuits

\* The runs of generate_constraints made so far
Done == {r \in Runs : gen.run[r] # None}

\* The qualified name generate_constraints looks main up at
MainName == new_scope(gen.input[1].program.name, "main")

\* C3: once resolve_definitions has succeeded, generate_constraints fails with NoMain
\* exactly when the flat namespace has no entry at "<program-name>::main", fails with
\* NoMainFunction exactly when that entry exists and is not a Function value, and calls
\* enforce_main_function exactly when the entry is a Function value.
C3_MainLookup ==
    \A r \in Done :
        LET out == gen.run[r][1].out
            ns == out.resolved_program
            enforced == \E i \in DOMAIN out.log : out.log[i] = "enforce_main_function"
        IN  Len(out.log) > 1 =>
                /\ (out.r.err = "NoMain") <=> (MainName \notin DOMAIN ns)
                /\ (out.r.err = "NoMainFunction") <=>
                      (MainName \in DOMAIN ns /\ ns[MainName].kind # "Function")
                /\ enforced <=> (MainName \in DOMAIN ns /\ ns[MainName].kind = "Function")

\* C3 witness: a program whose only main is a circuit, next to a function f, resolves
\* and then fails with NoMainFunction without a call of enforce_main_function
C3_Witness ==
    /\ gen.run[1] # None
    /\ gen.run[1][1].out.r.err = "NoMainFunction"
    /\ gen.run[1][1].out.log = << "resolve_definitions", "get" >>
    /\ gen.input[1].program.functions = << HelperFunction >>
    /\ MainName \in DOMAIN gen.run[1][1].out.resolved_program

C6_Inverse ==
    (last.op = "inverse") =>
        /\ (~last.out.ok /\ last.out.err = "NoInverse") <=> (last.arg.x = 0)
        /\ last.arg.x # 0 =>
              /\ last.out.ok
              /\ last.out.value[1] \in 1..(last.arg.p - 1)
              /\ Mul(last.arg.x, last.out.value[1], last.arg.p) = 1

\* C6 witness: the inversion of a nonzero element other than one and its own inverse
C6_Witness ==
    /\ last.op = "inverse"
    /\ last.out.ok
    /\ last.arg.x > 1
    /\ last.out.value[1] # last.arg.x

\* The nesting depth of event i of a log: the calls entered and not yet returned from
Depth(log, i) ==
    Cardinality({j \in 1..i : log[j].ev = "call"})
        - Cardinality({j \in 1..(i - 1) : log[j].ev = "return"})

\* The fetches of a module that a call makes itself, not through a nested call
Fetched(log) == {i \in DOMAIN log : log[i].ev = "get_import" /\ Depth(log, i) = 1}

\* The symbols of a statement that name a module an earlier symbol names
Repeated(symbols) ==
    {k \in DOMAIN symbols : \E j \in 1..(k - 1) : symbols[j].name = symbols[k].name}

\* A sequence without its element k
Remove(seq, k) == SubSeq(seq, 1, k - 1) \o SubSeq(seq, k + 1, Len(seq))

\* The symbols of a statement whose module the import parser does not provide
Absent(symbols) ==
    {k \in DOMAIN symbols : symbols[k].name \notin DOMAIN ImportParser.imports}

\* One insert_import call fetches each module name at most once, and only modules its
\* statement names
FetchedOnce(log, symbols) ==
    /\ \A i \in Fetched(log), j \in Fetched(log) : log[i].name = log[j].name => i = j
    /\ \A i \in Fetched(log) : \E k \in DOMAIN symbols : symbols[k].name = log[i].name

\* A further symbol of a module the statement already names changes neither the result
\* nor the table
RepeatIsIdle(pre, import, out) ==
    \A k \in Repeated(import.symbols) :
        LET less == insert_import(pre, ImportStatement(import.package,
                                                        Remove(import.symbols, k)),
                                  ImportParser)
        IN  out.r = less.r /\ out.t = less.t

\* C11 (as stated): one insert_import call fetches and checks each distinct module name
\* at most once, a further symbol of a module already named changes nothing, and a
\* statement that names a module the import parser does not provide fails with an
\* unknown-package error.
C11_AsStated ==
    last.op = "insert_import" =>
        /\ FetchedOnce(last.out.log, last.arg.import.symbols)
        /\ RepeatIsIdle(last.pre, last.arg.import, last.out)
        /\ Absent(last.arg.import.symbols) # {} => last.out.r.err = "unknown_package"

\* C11 (amended): one insert_import call fetches and checks each distinct module name at
\* most once, a further symbol of a module already named changes nothing, and a
\* statement that names a module the import parser does not provide fails: with an
\* unknown-package error for that module when the call comes to fetch it, which ends
\* the call, and with the error of an earlier module of the statement otherwise.
C11_CheckedOnce ==
    last.op = "insert_import" =>
        LET log == last.out.log
            symbols == last.arg.import.symbols
        IN  /\ FetchedOnce(log, symbols)
            /\ RepeatIsIdle(last.pre, last.arg.import, last.out)
            /\ Absent(symbols) # {} => ~last.out.r.ok
            /\ \A i \in Fetched(log) :
                  log[i].name \notin DOMAIN ImportParser.imports =>
                      /\ last.out.r = Err("unknown_package", [name |-> log[i].name])
                      /\ \A j \in Fetched(log) : j <= i
            /\ last.out.r.err = "unknown_package" =>
                  \/ \E i \in Fetched(log) : log[i].name = last.out.r.arg[1].name
                  \/ \E i \in DOMAIN log : Depth(log, i) > 1 /\ log[i].ev = "get_import"

\* C11 witness: a statement of two symbols of module m succeeds on a table without the
\* names of m, and m is fetched once
C11_Witness ==
    /\ last.op = "insert_import"
    /\ last.out.r.ok
    /\ Len(last.arg.import.symbols) = 2
    /\ \A k \in 1..2 : last.arg.import.symbols[k].name = "m"
    /\ last.arg.import.symbols[1] # last.arg.import.symbols[2]
    /\ Cardinality(Fetched(last.out.log)) = 1

\* The names of the circuits and functions the modules of a statement declare
DeclaredBy(symbols) ==
    UNION {LET program == ImportParser.imports[symbols[k].name] IN
           {program.circuits[i].circuit_name.name : i \in DOMAIN program.circuits}
               \cup {program.functions[i].identifier.name : i \in DOMAIN program.functions} :
           k \in DOMAIN symbols \ Absent(symbols)}

\* C12: a successful insert_import does not bind the imported module into the importing
\* scope: the name, circuit and function maps of the importing table hold no entry for
\* a circuit or function declared in the imported module that was not there before.
C12_NotBound ==
    (last.op = "insert_import" /\ last.out.r.ok) =>
        \A x \in DeclaredBy(last.arg.import.symbols) :
            /\ x \in DOMAIN last.out.t.names => x \in DOMAIN last.pre.names
            /\ x \in DOMAIN last.out.t.circuits => x \in DOMAIN last.pre.circuits
            /\ x \in DOMAIN last.out.t.functions => x \in DOMAIN last.pre.functions

\* C12 reached: a successful insert_import of a symbol of module m on a new table
C12_Witness ==
    /\ last.op = "insert_import"
    /\ last.out.r.ok
    /\ last.pre = new(None)
    /\ last.arg.import.symbols[1].name = "m"

\* C13: get_variable consults the current level only: it finds a name exactly when
\* insert_name registered it at that level, so a name registered only in an ancestor is
\* absent, while get_circuit and get_function find what was inserted in an ancestor.
C13_VariableLocal ==
    \A s \in LevelSlots : tables[s] # None =>
        \A n \in LevelNames :
            /\ (get_variable(tables[s][1], n) # None) <=> (<<"name", n>> \in ownIns[s])
            /\ <<"circuit", n>> \in ancIns[s] => get_circuit(tables[s][1], n) # None
            /\ <<"function", n>> \in ancIns[s] => get_function(tables[s][1], n) # None

\* C13 witness: the parent of the child registered the name a and inserted the circuit
\* and the function a, the child did neither: get_variable on the child is absent, and
\* get_circuit and get_function on the child are not
C13_Witness ==
    /\ tables[2] # None
    /\ {<<"name", "a">>, <<"circuit", "a">>, <<"function", "a">>} \subseteq ancIns[2]
    /\ ownIns[2] = {}
    /\ get_variable(tables[2][1], "a") = None
    /\ get_circuit(tables[2][1], "a") # None
    /\ get_function(tables[2][1], "a") # None

\* C19: duplicate detection is local to a level: a name registration fails exactly when
\* the name is registered at the level itself, whatever the ancestors hold; and once a
\* definition of a name is inserted in the child, the lookup on the child returns the
\* child's definition while the lookup on its ancestor returns the ancestor's.
C19_LevelLocal ==
    /\ last.op \in {"insert_circuit_name", "insert_function_name"} =>
          (last.out.r.ok <=> <<"name", last.arg.name>> \notin last.own)
    /\ \A n \in LevelNames : (tables[2] # None /\ tables[2][1].parent # None) =>
          /\ <<"circuit", n>> \in ownIns[2] =>
                get_circuit(tables[2][1], n) = Some(CircuitType(Identifier(n, 2), <<>>, <<>>))
          /\ <<"circuit", n>> \in ancIns[2] =>
                get_circuit(tables[2][1].parent[1], n) =
                    Some(CircuitType(Identifier(n, 1), <<>>, <<>>))
          /\ <<"function", n>> \in ownIns[2] =>
                get_function(tables[2][1], n) =
                    Some(FunctionType(Identifier(n, 2), <<>>, <<>>))
          /\ <<"function", n>> \in ancIns[2] =>
                get_function(tables[2][1].parent[1], n) =
                    Some(FunctionType(Identifier(n, 1), <<>>, <<>>))

\* C19 witness: the parent registered the name a and inserted a circuit a; the child then
\* registered a without error and inserted its own circuit a, which its lookup returns
C19_Witness ==
    /\ tables[2] # None
    /\ {<<"name", "a">>, <<"circuit", "a">>} \subseteq ancIns[2]
    /\ {<<"name", "a">>, <<"circuit", "a">>} \subseteq ownIns[2]
    /\ last.op = "insert_circuit_name" /\ last.slot = 2 /\ last.out.r.ok
    /\ get_circuit(tables[2][1], "a")[1].identifier.span = 2
    /\ get_circuit(tables[2][1].parent[1], "a")[1].identifier.span = 1

\* The registrations of a name
NameOps == {"insert_circuit_name", "insert_function_name"}

\* C14: circuit names and function names share the name map of a level:
\* insert_circuit_name and insert_function_name fail exactly when the name is registered
\* at the level by either kind, insert_circuit_name with a duplicate-circuit error and
\* insert_function_name with a duplicate-function error, each carrying the type that
\* was registered before.
C14_SharedNames ==
    last.op \in NameOps =>
        /\ last.out.r.ok <=> last.arg.name \notin DOMAIN last.pre.names
        /\ ~last.out.r.ok =>
              /\ last.out.r.err = IF last.op = "insert_circuit_name"
                                  THEN "duplicate_circuit" ELSE "duplicate_function"
              /\ last.out.r.arg = Some(last.pre.names[last.arg.name])

\* C14 witness: a function named like a registered circuit fails with the
\* duplicate-function error that carries the circuit's type
C14_Witness ==
    /\ last.op = "insert_function_name"
    /\ last.out.r.err = "duplicate_function"
    /\ last.out.r.arg[1].kind = "circuit"
    /\ last.out.r.arg[1] = last.pre.names[last.arg.name]

\* C20: a failing insert_circuit_name or insert_function_name has changed the table:
\* the name map holds the new type for the name, its other entries are unchanged, and
\* the circuit map, the function map and the parent are unchanged.
C20_FailedUpsert ==
    (last.op \in NameOps /\ ~last.out.r.ok) =>
        /\ DOMAIN last.out.t.names = DOMAIN last.pre.names
        /\ last.out.t.names[last.arg.name] = last.arg.variable_type
        /\ \A x \in DOMAIN last.pre.names \ {last.arg.name} :
              last.out.t.names[x] = last.pre.names[x]
        /\ last.out.t.circuits = last.pre.circuits
        /\ last.out.t.functions = last.pre.functions
        /\ last.out.t.parent = last.pre.parent

\* C20 witness: a circuit name is registered again with another type on a table that
\* holds another name and a circuit; the call fails and the name map holds the new type
C20_Witness ==
    /\ last.op = "insert_circuit_name"
    /\ ~last.out.r.ok
    /\ last.pre.names[last.arg.name] # last.arg.variable_type
    /\ last.out.t.names[last.arg.name] = last.arg.variable_type
    /\ DOMAIN last.pre.names = DefNames
    /\ last.pre.circuits # EmptyMap

\* The errors raised in a log
Errors(log) == {i \in DOMAIN log : log[i].ev = "error"}

\* The registrations of a log whose name is taken when they are made: by the table the
\* pass started on, or by an earlier registration of the pass
Taken(pre, log) ==
    {i \in DOMAIN log :
        /\ log[i].ev \in NameOps
        /\ \/ log[i].name \in DOMAIN pre.names
           \/ \E j \in 1..(i - 1) : log[j].ev \in NameOps /\ log[j].name = log[i].name}

\* The first error of a type-check pass is final: a registration of a taken name raises
\* an error at once, an error is followed by nothing but the returns of the handlers
\* under way, and the pass returns that error and returns Ok only without any
FirstErrorFinal(pre, out) ==
    /\ \A i \in Taken(pre, out.log) : i + 1 \in Errors(out.log)
    /\ \A i \in Errors(out.log) :
          /\ out.log[i].err = out.r.err
          /\ \A j \in (i + 1)..Len(out.log) : out.log[j].ev = "return"
    /\ out.r.ok <=> Errors(out.log) = {}

\* The function main of an instance of a program
MainOf(instance) == SelectSeq(instance.functions, LAMBDA f : f.function_name = "main")[1]

\* The statements of a body before the first that fails or returns
Before(statements) ==
    SubSeq(statements, 1,
           Cardinality({k \in DOMAIN statements :
                           \A j \in 1..k : statements[j].kind = "constrain"}))

\* The body fails: the statement after the constraining ones is a failing one
Fails(statements) ==
    /\ Len(Before(statements)) < Len(statements)
    /\ statements[Len(Before(statements)) + 1].kind = "fail"

\* The constraints of a constraint system
Constraints(cs) == SelectSeq(cs, LAMBDA c : c.kind = "enforce")

\* The first error of a constraint generation is final: a failing resolve_definitions
\* is the only step and leaves the constraint system empty, a missing main ends the
\* run before enforce_main_function, a failing statement is the last to be evaluated,
\* and the run returns Ok only when no step failed
FirstFailureFinal(run) ==
    LET out == run.out
        enforced == out.log = << "resolve_definitions", "get", "enforce_main_function" >>
    IN  /\ MissingImports(run.instance) # <<>> =>
              out.log = << "resolve_definitions" >> /\ out.cs = <<>> /\ ~out.r.ok
        /\ out.r.err \in {"NoMain", "NoMainFunction"} =>
              out.log = << "resolve_definitions", "get" >> /\ out.cs = <<>>
        /\ enforced =>
              /\ Constraints(out.cs) =
                    [k \in DOMAIN Before(MainOf(run.instance).statements) |->
                        Constraint(MainOf(run.instance).statements[k])]
              /\ Fails(MainOf(run.instance).statements) <=> ~out.r.ok
        /\ out.r.ok => enforced

\* C15: in a type-check pass and in a constraint-generation pass the first error is
\* final: once a step has returned an error no later step runs (no insertion in the
\* symbol table, no constraint appended), and the pass returns that error, never Ok.
C15_FirstErrorFinal ==
    /\ last.op \in {"check_duplicate_program", "check_unknown_types_program"} =>
          FirstErrorFinal(last.pre, last.out)
    /\ \A r \in Done : FirstFailureFinal(gen.run[r][1])

\* C15 witness: a type-check pass in which a registration succeeded and a later one
\* raised the error the pass returns
C15_Witness ==
    /\ last.op = "check_duplicate_program"
    /\ ~last.out.r.ok
    /\ Taken(last.pre, last.out.log) # {}
    /\ \E i \in DOMAIN last.out.log :
          last.out.log[i].ev \in NameOps /\ i \notin Taken(last.pre, last.out.log)
    /\ Len(last.arg.program.functions) > 0

\* C16: enforce_main_function allocates exactly one variable per declared parameter of
\* main, in declaration order, without a value when the parameters entry is None and
\* with the given value when it is Some(v); the allocations precede the evaluation of
\* the first statement of the body, and the statements are evaluated in source order.
C16_Allocation ==
    \A r \in Done :
        LET run == gen.run[r][1]
            cs == run.out.cs
            inputs == MainOf(run.instance).inputs
            parameters == gen.input[1].parameters
            n == Len(MainOf(run.instance).inputs)
        IN  run.out.log = << "resolve_definitions", "get", "enforce_main_function" >> =>
                /\ Len(cs) >= n
                /\ \A i \in 1..n :
                      /\ cs[i].kind = "alloc"
                      /\ cs[i].name = new_scope(MainName, inputs[i])
                      /\ parameters[i] = None => cs[i].value = None
                      /\ parameters[i] # None => cs[i].value = Some(parameters[i][1])
                /\ SubSeq(cs, n + 1, Len(cs)) =
                      [k \in DOMAIN Before(MainOf(run.instance).statements) |->
                          Constraint(MainOf(run.instance).statements[k])]

\* C16 witness: a main of two parameters, the first given no value and the second the
\* value 1, and of two statements that each append a constraint
C16_Witness ==
    /\ gen.run[1] # None
    /\ gen.input[1].parameters = << None, Some(1) >>
    /\ Len(gen.run[1][1].out.cs) = 4
    /\ gen.run[1][1].out.cs[2].value = Some(1)
    /\ gen.run[1][1].out.cs[3].kind = "enforce"
    /\ gen.run[1][1].out.cs[3] # gen.run[1][1].out.cs[4]

\* C18: when generate_constraints fails with NoMain or NoMainFunction the constraint
\* system is as it was: resolve_definitions and the lookup of main append no constraint
\* and allocate no variable, and enforce_main_function has not been called.
C18_SinkUntouched ==
    \A r \in Done :
        gen.run[r][1].out.r.err \in {"NoMain", "NoMainFunction"} =>
            /\ gen.run[r][1].out.cs = <<>>
            /\ gen.run[r][1].out.log = << "resolve_definitions", "get" >>

\* C18 witness: a program with a function f that appends a constraint when evaluated
\* but without a main fails with NoMain and leaves the constraint system empty
C18_Witness ==
    /\ gen.run[1] # None
    /\ gen.run[1][1].out.r.err = "NoMain"
    /\ gen.run[1][1].out.cs = <<>>
    /\ gen.input[1].program.functions = << HelperFunction >>
    /\ gen.input[1].program.circuits = << CircuitDefinition("C") >>

\* The calls of a handler that a log holds
Calls(log, handler) == {i \in DOMAIN log : log[i].ev = "call" /\ log[i].name = handler}

\* C17: check_import dispatches on the core-package lookup alone: for a core package
\* only insert_core_package runs and the import parser is not asked for a module; for
\* any other package only insert_import runs; the result and the table are those of
\* the branch taken.
C17_Dispatch ==
    last.op = "check_import" =>
        LET import == last.arg.import
            log == last.out.log
            core_package == get_core_package(ImportParser, import.package)
            branch == IF core_package # None
                      THEN insert_core_package(last.pre, core_package[1])
                      ELSE insert_import(last.pre, import, ImportParser)
        IN  /\ log[1] = [ev |-> "get_core_package", name |-> import.package]
            /\ last.out.r = branch.r
            /\ last.out.t = branch.t
            /\ core_package # None =>
                  /\ Calls(log, "insert_core_package") = {2}
                  /\ Calls(log, "insert_import") = {}
                  /\ \A i \in DOMAIN log : log[i].ev # "get_import"
            /\ core_package = None =>
                  /\ 2 \in Calls(log, "insert_import")
                  /\ Calls(log, "insert_core_package") = {}

\* C17 witness: the statement of a core package whose symbols name a module the import
\* parser does not provide succeeds, and the core circuit is inserted
C17_Witness ==
    /\ last.op = "check_import"
    /\ last.arg.import.package = "core"
    /\ Absent(last.arg.import.symbols) # {}
    /\ last.out.r.ok
    /\ "K" \in DOMAIN last.out.t.circuits

\* The modules of the import parser that declare a circuit or a function
Declaring ==
    {x \in DOMAIN ImportParser.imports :
        ImportParser.imports[x].circuits \o ImportParser.imports[x].functions # <<>>}

\* The fetches of a declaring module that an earlier event of the log fetched too
Revisits(log) ==
    {j \in DOMAIN log :
        /\ log[j].ev = "get_import"
        /\ log[j].name \in Declaring
        /\ \E i \in 1..(j - 1) : log[i].ev = "get_import" /\ log[i].name = log[j].name}

\* The first fetch of the module that event j of the log fetches
FirstVisit(log, j) ==
    Least({i \in DOMAIN log : log[i].ev = "get_import" /\ log[i].name = log[j].name})

\* The visit that starts at event j of the log fails with a duplicate error: the one
\* error of the log is raised after j by the first registration attempted after j, for a
\* name registered since the module was first fetched, and it is the result of the call
VisitFails(out, j) ==
    /\ out.r.err \in {"duplicate_circuit", "duplicate_function"}
    /\ \E e \in Errors(out.log) :
          /\ Errors(out.log) = {e}
          /\ e > j + 1
          /\ out.log[e].err = out.r.err
          /\ out.log[e - 1].ev \in NameOps
          /\ \A k \in (j + 1)..(e - 2) : out.log[k].ev \notin NameOps
          /\ \E i \in (FirstVisit(out.log, j) + 1)..(j - 1) :
                /\ out.log[i].ev \in NameOps
                /\ out.log[i].name = out.log[e - 1].name
                /\ out.r.arg = Some(out.log[i].ty)

\* The statements of imports that name, after the statements before them were checked
\* without error, a declaring module those statements fetched
Renamed(pre, imports) ==
    {l \in DOMAIN imports :
        LET before == check_imports(pre, SubSeq(imports, 1, l - 1), ImportParser) IN
        /\ before.r.ok
        /\ get_core_package(ImportParser, imports[l].package) = None
        /\ imports[l].symbols[1].name \in Declaring
        /\ \E i \in DOMAIN before.log :
              /\ before.log[i].ev = "get_import"
              /\ before.log[i].name = imports[l].symbols[1].name}

\* C21: a module that declares a circuit or a function and is reached twice while one
\* table is checked, by two import statements of the program or along two import paths
\* of nested imports, is fetched again (the checked list lives for one insert_import
\* call) and the second visit fails with a duplicate error, raised for a name the first
\* visit registered in the same table.
C21_SecondVisit ==
    last.op = "check_duplicate_program" =>
        /\ \A j \in Revisits(last.out.log) : VisitFails(last.out, j)
        /\ Renamed(last.pre, last.arg.program.imports) # {} => Revisits(last.out.log) # {}

\* C21 witness: a program imports m and then n, which imports m itself; m is fetched
\* along both paths and the check fails with a duplicate-circuit error
C21_Witness ==
    /\ last.op = "check_duplicate_program"
    /\ Len(last.arg.program.imports) = 2
    /\ last.arg.program.imports[1].package = "m"
    /\ last.arg.program.imports[2].package = "n"
    /\ \E j \in Revisits(last.out.log) : last.out.log[j].name = "m"
    /\ last.out.r.err = "duplicate_circuit"

\* C22: insert_input writes only the circuit map of the level it is called on.  It
\* never reports a duplicate; when it returns Ok each of registers, record, state,
\* state_leaf and input holds the newly built circuit, whatever circuit the level held
\* under that name, and every other circuit is as before; the name map, the function
\* map and the parent are unchanged; and when building a section type fails the table
\* is unchanged and no circuit has been inserted.
C22_InputFrame ==
    last.op = "insert_input" =>
        LET pre == last.pre
            post == last.out.t
            log == last.out.log
        IN  /\ last.out.r.err \notin {"duplicate_circuit", "duplicate_function"}
            /\ post.names = pre.names
            /\ post.functions = pre.functions
            /\ post.parent = pre.parent
            /\ last.out.r.ok =>
                  /\ DOMAIN post.circuits = DOMAIN pre.circuits \cup Range(InputCircuitNames)
                  /\ \A x \in DOMAIN pre.circuits \ Range(InputCircuitNames) :
                        post.circuits[x] = pre.circuits[x]
                  /\ \A i \in 1..5 :
                        post.circuits[InputCircuitNames[i]].identifier =
                            Identifier_new(InputCircuitNames[i])
                  /\ \A i \in 1..4 :
                        post.circuits[InputCircuitNames[i]].variables =
                            last.arg.input[InputCircuitNames[i]]
            /\ ~last.out.r.ok =>
                  /\ post = pre
                  /\ \A i \in DOMAIN log : log[i].ev # "insert_circuit"

\* C22 witness: insert_input returns Ok on a child level that holds circuits named
\* registers and input and a function named input, and whose parent holds a circuit
\* named input; the two circuits of the level are replaced and the parent's is kept
C22_Witness ==
    /\ last.op = "insert_input"
    /\ last.slot = 2
    /\ last.out.r.ok
    /\ InputLevelNames \subseteq DOMAIN last.pre.circuits
    /\ INPUT_VARIABLE_NAME \in DOMAIN last.pre.functions
    /\ INPUT_VARIABLE_NAME \in DOMAIN last.pre.parent[1].circuits
    /\ \A n \in InputLevelNames :
          last.out.t.circuits[n] # last.pre.circuits[n]
    /\ last.out.t.parent[1].circuits[INPUT_VARIABLE_NAME].identifier =
          Identifier(INPUT_VARIABLE_NAME, 1)

====
